---------------------------- MODULE Spec2Model ----------------------------
(***************************************************************************)
(* Model of backend/core/ai_services.py, _parse_json_with_recovery: the    *)
(* staged JSON recovery parser, together with the standard decoder         *)
(* (json.loads) and the regular-expression substitutions it calls.         *)
(*                                                                         *)
(* A text is a sequence of one-character strings.  The modelled alphabet   *)
(* holds no '-', '.', '+', 'e', 'E', 'u', 'l', 'N', 'I', so the            *)
(* decoder's branches for fractions, exponents, \uXXXX escapes and the     *)
(* literals true/false/null/NaN/Infinity cannot be entered and are left    *)
(* out; every other branch of the decoder is modelled.                     *)
(***************************************************************************)
EXTENDS Integers, Sequences, FiniteSets, TLC

(***************************************************************************)
(* Character classes.                                                      *)
(***************************************************************************)
\* json.decoder.WHITESPACE_STR
JsonWS == {" ", "\t", "\n", "\r"}

\* \s of a str pattern (re), over the alphabet
ReSpace == {" ", "\t", "\n", "\r", "\f"}

\* characters str.rstrip() / str.strip() remove, over the alphabet
StrWS == {" ", "\t", "\n", "\r", "\f"}

\* \w of a str pattern (re), over the alphabet
WordChars == {"a", "b", "c", "d", "j", "k", "n", "o", "s", "x", "y", "_",
              "0", "1", "2", "3", "4", "5", "6", "7", "8", "9"}

Digits == {"0", "1", "2", "3", "4", "5", "6", "7", "8", "9"}

\* characters below U+0020, rejected inside a string by the strict decoder
ControlChars == {"\t", "\n", "\r", "\f", "BS"}

\* json.decoder.BACKSLASH ("BS" stands for U+0008)
BACKSLASH == [c \in {"\"", "\\", "/", "b", "f", "n", "r", "t"} |->
                 CASE c = "b" -> "BS"
                   [] c = "f" -> "\f"
                   [] c = "n" -> "\n"
                   [] c = "r" -> "\r"
                   [] c = "t" -> "\t"
                   [] OTHER -> c]

(***************************************************************************)
(* The interpreter's recursion limit, scaled down: a document whose        *)
(* containers nest deeper makes json.loads raise RecursionError, which is  *)
(* not a JSONDecodeError.                                                  *)
(***************************************************************************)
RecursionLimit == 3

(***************************************************************************)
(* Decoded values.  Every value has the same four fields, so any two can   *)
(* be compared: t is the kind, s the characters of a string or the digits  *)
(* of a number, items the elements of an array, members the mapping of an  *)
(* object (a function from keys to values: a repeated key keeps its last   *)
(* value and the order of keys is immaterial, as for a dict).              *)
(***************************************************************************)
NoValue == [t |-> "none", s |-> <<>>, items |-> <<>>, members |-> <<>>]
JStr(chars) == [t |-> "str", s |-> chars, items |-> <<>>, members |-> <<>>]
JNum(digits) == [t |-> "num", s |-> digits, items |-> <<>>, members |-> <<>>]
JArr(values) == [t |-> "arr", s |-> <<>>, items |-> values, members |-> <<>>]
JObj(pairs) == [t |-> "obj", s |-> <<>>, items |-> <<>>, members |-> pairs]

\* dict(pairs) after one more (key, value) pair
PutMember(m, key, value) ==
    [k \in (DOMAIN m) \cup {key} |-> IF k = key THEN value ELSE m[k]]

(***************************************************************************)
(* json.loads.  A decode step yields a value and the index after it, or    *)
(* the exception: err is the JSONDecodeError message (or "RecursionError") *)
(* and pos the 1-based index it reports.                                   *)
(***************************************************************************)
DecodeOk(value, next) ==
    [ok |-> TRUE, val |-> value, end |-> next, err |-> "", pos |-> 0]
DecodeFail(message, at) ==
    [ok |-> FALSE, val |-> NoValue, end |-> 0, err |-> message, pos |-> at]

RECURSIVE SkipWS(_, _)
SkipWS(s, i) ==
    IF i <= Len(s) /\ s[i] \in JsonWS THEN SkipWS(s, i + 1) ELSE i

\* py_scanstring, strict: b is the index after the opening quote
RECURSIVE scanstring(_, _, _, _)
scanstring(s, b, i, acc) ==
    IF i > Len(s) THEN DecodeFail("Unterminated string starting at", b - 1)
    ELSE IF s[i] = "\"" THEN DecodeOk(JStr(acc), i + 1)
    ELSE IF s[i] = "\\" THEN
        IF i + 1 > Len(s)
        THEN DecodeFail("Unterminated string starting at", b - 1)
        ELSE IF s[i + 1] \in DOMAIN BACKSLASH
        THEN scanstring(s, b, i + 2, Append(acc, BACKSLASH[s[i + 1]]))
        ELSE DecodeFail("Invalid \\escape", i)
    ELSE IF s[i] \in ControlChars
    THEN DecodeFail("Invalid control character at", i)
    ELSE scanstring(s, b, i + 1, Append(acc, s[i]))

\* NUMBER_RE over the alphabet: 0 | [1-9][0-9]*
RECURSIVE DigitsEnd(_, _)
DigitsEnd(s, i) ==
    IF i <= Len(s) /\ s[i] \in Digits THEN DigitsEnd(s, i + 1) ELSE i

NumberEnd(s, i) == IF s[i] = "0" THEN i + 1 ELSE DigitsEnd(s, i)

RECURSIVE scan_once(_, _, _)
RECURSIVE ObjectPairs(_, _, _, _)
RECURSIVE ArrayValues(_, _, _, _)

\* JSONObject: e is the index after the opening brace
JSONObject(s, e, depth) ==
    LET j == SkipWS(s, e)
    IN  IF j <= Len(s) /\ s[j] = "}" THEN DecodeOk(JObj(<<>>), j + 1)
        ELSE IF j > Len(s) \/ s[j] # "\""
        THEN DecodeFail("Expecting property name enclosed in double quotes", j)
        ELSE ObjectPairs(s, j + 1, depth, <<>>)

\* the loop of JSONObject: b is the index after a key's opening quote
ObjectPairs(s, b, depth, pairs) ==
    LET key == scanstring(s, b, b, <<>>)
        c == SkipWS(s, key.end)
        value == scan_once(s, SkipWS(s, c + 1), depth)
        j == SkipWS(s, value.end)
        more == PutMember(pairs, key.val.s, value.val)
        q == SkipWS(s, j + 1)
    IN  IF ~key.ok THEN key
        ELSE IF c > Len(s) \/ s[c] # ":"
        THEN DecodeFail("Expecting ':' delimiter", c)
        ELSE IF ~value.ok THEN value
        ELSE IF j <= Len(s) /\ s[j] = "}" THEN DecodeOk(JObj(more), j + 1)
        ELSE IF j > Len(s) \/ s[j] # ","
        THEN DecodeFail("Expecting ',' delimiter", j)
        ELSE IF q > Len(s) \/ s[q] # "\""
        THEN DecodeFail("Expecting property name enclosed in double quotes", q)
        ELSE ObjectPairs(s, q + 1, depth, more)

\* JSONArray: e is the index after the opening bracket
JSONArray(s, e, depth) ==
    LET j == SkipWS(s, e)
    IN  IF j <= Len(s) /\ s[j] = "]" THEN DecodeOk(JArr(<<>>), j + 1)
        ELSE ArrayValues(s, j, depth, <<>>)

\* the loop of JSONArray: i is the index where the next value must start
ArrayValues(s, i, depth, values) ==
    LET value == scan_once(s, i, depth)
        j == SkipWS(s, value.end)
        more == Append(values, value.val)
    IN  IF ~value.ok THEN value
        ELSE IF j <= Len(s) /\ s[j] = "]" THEN DecodeOk(JArr(more), j + 1)
        ELSE IF j > Len(s) \/ s[j] # ","
        THEN DecodeFail("Expecting ',' delimiter", j)
        ELSE ArrayValues(s, SkipWS(s, j + 1), depth, more)

\* scanner.scan_once; depth is the number of containers already open
scan_once(s, i, depth) ==
    IF i > Len(s) THEN DecodeFail("Expecting value", i)
    ELSE IF s[i] = "\"" THEN scanstring(s, i + 1, i + 1, <<>>)
    ELSE IF s[i] \in {"{", "["} THEN
        IF depth >= RecursionLimit THEN DecodeFail("RecursionError", i)
        ELSE IF s[i] = "{" THEN JSONObject(s, i + 1, depth + 1)
        ELSE JSONArray(s, i + 1, depth + 1)
    ELSE IF s[i] \in Digits
    THEN DecodeOk(JNum(SubSeq(s, i, NumberEnd(s, i) - 1)), NumberEnd(s, i))
    ELSE DecodeFail("Expecting value", i)

\* JSONDecoder.decode: one value, whitespace around it, nothing else
loads(s) ==
    LET r == scan_once(s, SkipWS(s, 1), 0)
        e == SkipWS(s, r.end)
    IN  IF ~r.ok THEN r
        ELSE IF e # Len(s) + 1 THEN DecodeFail("Extra data", e)
        ELSE r

(***************************************************************************)
(* Text helpers: str.find, str.rfind, str.count, str.split, str.join,      *)
(* str.strip, as the function uses them (indices here are 1-based, 0 is    *)
(* "not found").                                                           *)
(***************************************************************************)
RECURSIVE FindFrom(_, _, _)
FindFrom(s, chars, i) ==
    IF i > Len(s) THEN 0
    ELSE IF s[i] \in chars THEN i
    ELSE FindFrom(s, chars, i + 1)

\* s.find(c), 1-based
Find(s, c) == FindFrom(s, {c}, 1)

RECURSIVE RFindFrom(_, _, _)
RFindFrom(s, c, i) ==
    IF i < 1 THEN 0
    ELSE IF s[i] = c THEN i
    ELSE RFindFrom(s, c, i - 1)

\* s.rfind(c), 1-based
RFind(s, c) == RFindFrom(s, c, Len(s))

\* s.count(c)
Count(s, c) == Cardinality({i \in 1..Len(s) : s[i] = c})

\* c * n, which is empty for n <= 0
Repeat(c, n) == [i \in 1..n |-> c]

RECURSIVE LStrip(_)
LStrip(s) == IF s # <<>> /\ Head(s) \in StrWS THEN LStrip(Tail(s)) ELSE s

RECURSIVE RStrip(_)
RStrip(s) ==
    IF s # <<>> /\ s[Len(s)] \in StrWS
    THEN RStrip(SubSeq(s, 1, Len(s) - 1)) ELSE s

Strip(s) == LStrip(RStrip(s))

\* s.split('\n')
RECURSIVE Split(_)
Split(s) ==
    LET nl == Find(s, "\n")
    IN  IF nl = 0 THEN <<s>>
        ELSE <<SubSeq(s, 1, nl - 1)>> \o Split(SubSeq(s, nl + 1, Len(s)))

\* '\n'.join(lines)
RECURSIVE Join(_)
Join(lines) ==
    IF Len(lines) = 1 THEN lines[1]
    ELSE lines[1] \o <<"\n">> \o Join(Tail(lines))

(***************************************************************************)
(* Stage 2, the four normalizations.  re.sub scans left to right and       *)
(* resumes after each match; none of the patterns can match the empty      *)
(* text.                                                                   *)
(***************************************************************************)
RECURSIVE WordEnd(_, _)
WordEnd(s, i) ==
    IF i <= Len(s) /\ s[i] \in WordChars THEN WordEnd(s, i + 1) ELSE i

RECURSIVE SpaceEnd(_, _)
SpaceEnd(s, i) ==
    IF i <= Len(s) /\ s[i] \in ReSpace THEN SpaceEnd(s, i + 1) ELSE i

\* '(\w+)': matched at i: the index of the quote that closes the key, else 0
KeyMatch(s, i) ==
    LET w == WordEnd(s, i + 1)
    IN  IF /\ s[i] = "'" /\ w > i + 1 /\ w + 1 <= Len(s)
           /\ s[w] = "'" /\ s[w + 1] = ":"
        THEN w ELSE 0

\* re.sub(r"'(\w+)':", r'"\1":', s), from index i on
RECURSIVE FixKeys(_, _)
FixKeys(s, i) ==
    IF i > Len(s) THEN <<>>
    ELSE LET w == KeyMatch(s, i)
         IN  IF w # 0
             THEN <<"\"">> \o SubSeq(s, i + 1, w - 1) \o <<"\"", ":">>
                     \o FixKeys(s, w + 2)
             ELSE <<s[i]>> \o FixKeys(s, i + 1)

\* :\s*'([^']*)' matched at i: <<opening quote, closing quote>>, else <<0, 0>>
ValueMatch(s, i) ==
    LET q == SpaceEnd(s, i + 1)
        c == FindFrom(s, {"'"}, q + 1)
    IN  IF s[i] = ":" /\ q <= Len(s) /\ s[q] = "'" /\ c # 0
        THEN <<q, c>> ELSE <<0, 0>>

\* re.sub(r":\s*'([^']*)'", r': "\1"', s), from index i on
RECURSIVE FixValues(_, _)
FixValues(s, i) ==
    IF i > Len(s) THEN <<>>
    ELSE LET m == ValueMatch(s, i)
         IN  IF m[1] # 0
             THEN <<":", " ", "\"">> \o SubSeq(s, m[1] + 1, m[2] - 1)
                     \o <<"\"">> \o FixValues(s, m[2] + 1)
             ELSE <<s[i]>> \o FixValues(s, i + 1)

\* the comma is matched only when the closing character follows it at once
TrailingCommaMatchAdjacent(s, i) ==
    IF s[i] = "," /\ i + 1 <= Len(s) /\ s[i + 1] \in {"}", "]"}
    THEN i + 1 ELSE 0

\* ,(\s*[}\]]) matched at i: the index of the closing character, else 0
TrailingCommaMatch(s, i) ==
    LET q == SpaceEnd(s, i + 1)
    IN  IF s[i] = "," /\ q <= Len(s) /\ s[q] \in {"}", "]"} THEN q ELSE 0

\* re.sub(r',(\s*[}\]])', r'\1', s), from index i on
RECURSIVE FixTrailingCommas(_, _)
FixTrailingCommas(s, i) ==
    IF i > Len(s) THEN <<>>
    ELSE LET q == TrailingCommaMatch(s, i)
         IN  IF q # 0
             THEN SubSeq(s, i + 1, q) \o FixTrailingCommas(s, q + 1)
             ELSE <<s[i]>> \o FixTrailingCommas(s, i + 1)

\* the character of a markdown code fence ("BQ" stands for U+0060)
Backtick == "BQ"

\* a code fence (three backticks) starts at i
FenceAt(s, i) ==
    /\ i + 2 <= Len(s)
    /\ s[i] = Backtick /\ s[i + 1] = Backtick /\ s[i + 2] = Backtick

RECURSIVE FenceFrom(_, _)
FenceFrom(s, i) ==
    IF i > Len(s) THEN 0
    ELSE IF FenceAt(s, i) THEN i
    ELSE FenceFrom(s, i + 1)

\* the lazy (.*?) ends at the first index from which \s* and a fence match
RECURSIVE LazyEnd(_, _)
LazyEnd(s, i) ==
    IF i > Len(s) THEN 0
    ELSE IF FenceAt(s, SpaceEnd(s, i)) THEN i
    ELSE LazyEnd(s, i + 1)

\* re.search of fence, (?:json)?, \s*, (.*?), \s*, fence (re.DOTALL): group 1 as
\* <<first index, index after it>>, or <<0, 0>> when nothing matches
FenceMatch(s) ==
    LET p == FenceFrom(s, 1)
        a == IF p + 6 <= Len(s) /\ SubSeq(s, p + 3, p + 6) = <<"j", "s", "o", "n">>
             THEN p + 7 ELSE p + 3
        b == SpaceEnd(s, a)
        c == LazyEnd(s, b)
    IN  IF p = 0 \/ FenceFrom(s, p + 3) = 0 THEN <<0, 0>>
        ELSE <<b, c>>

\* Fix 3: the content of the first code block, stripped
ExtractFence(s) ==
    LET m == FenceMatch(s)
    IN  IF FenceFrom(s, 1) # 0 /\ m[1] # 0
        THEN Strip(SubSeq(s, m[1], m[2] - 1))
        ELSE s

\* the substitution of the single-quoted values is left out
NormalizeKeysOnly(text) ==
    ExtractFence(FixTrailingCommas(FixKeys(text, 1), 1))

\* fixed_text as stage 2 decodes it
Normalize(text) ==
    ExtractFence(FixTrailingCommas(FixValues(FixKeys(text, 1), 1), 1))

(***************************************************************************)
(* The position a JSONDecodeError prints, which stage 3a reads back from   *)
(* the message with r'line (\d+) column (\d+)'.                            *)
(***************************************************************************)
\* JSONDecodeError.lineno
lineno(s, pos) == Count(SubSeq(s, 1, pos - 1), "\n") + 1

\* JSONDecodeError.colno
colno(s, pos) == pos - RFindFrom(s, "\n", pos - 1)

\* "Unterminated string" in str(e2)
IsUnterminated(e) == e.err = "Unterminated string starting at"

\* an exception that "except json.JSONDecodeError" does not catch
IsRecursionError(e) == e.err = "RecursionError"

Min(a, b) == IF a < b THEN a ELSE b
Max(a, b) == IF a > b THEN a ELSE b

(***************************************************************************)
(* Stage 3a: close the string on the line the error names.                 *)
(***************************************************************************)
\* problem_line
ProblemLine(ft, line_num) == Split(ft)[line_num]

\* the line already ends with a quote (after rstrip)
EndsWithQuote(line) ==
    LET t == RStrip(line)
    IN  t # <<>> /\ t[Len(t)] \in {"\"", "'"}

\* problem_line.rfind('"', 0, col_num) != -1
HasQuoteBefore(line, col_num) ==
    \E k \in 1..Min(col_num, Len(line)) : line[k] = "\""

\* the quote is put at the end of the line
fixed_line_end(line, col_num) == line \o <<"\"">>

\* problem_line[:col_num] + '"' + problem_line[col_num:]
fixed_line(line, col_num) ==
    SubSeq(line, 1, Min(col_num, Len(line))) \o <<"\"">>
        \o SubSeq(line, col_num + 1, Len(line))

\* stage 3a makes its decode attempt
Stage3aAttempts(ft, e) ==
    LET line_num == lineno(ft, e.pos)
        col_num == colno(ft, e.pos)
    IN  /\ line_num <= Len(Split(ft))
        /\ ~EndsWithQuote(ProblemLine(ft, line_num))
        /\ HasQuoteBefore(ProblemLine(ft, line_num), col_num)

\* fixed_text after stage 3a rewrote the line
Stage3aText(ft, e) ==
    LET line_num == lineno(ft, e.pos)
        col_num == colno(ft, e.pos)
        lines == Split(ft)
    IN  Join([lines EXCEPT ![line_num] = fixed_line(lines[line_num], col_num)])

(***************************************************************************)
(* Stage 3b: truncate after the last double quote and close what is open.  *)
(***************************************************************************)
\* fixed_text.rfind('"')
safe_end(ft) == RFind(ft, "\"")

\* fixed_text[safe_end:]
remaining(ft) == SubSeq(ft, safe_end(ft), Len(ft))

\* index in remaining of the nearer of its first } and first ], 0 if neither
end_pos(ft) ==
    LET brace_pos == Find(remaining(ft), "}")
        bracket_pos == Find(remaining(ft), "]")
    IN  IF brace_pos # 0 /\ bracket_pos # 0 THEN Min(brace_pos, bracket_pos)
        ELSE IF brace_pos # 0 THEN brace_pos
        ELSE bracket_pos

\* stage 3b makes its decode attempt
Stage3bAttempts(ft) == safe_end(ft) # 0 /\ end_pos(ft) # 0

\* truncated, before the closers are appended
Truncated(ft) ==
    SubSeq(ft, 1, safe_end(ft)) \o SubSeq(remaining(ft), 1, end_pos(ft))

\* the closers are appended for the braces only
BalancedBracesOnly(tr) ==
    tr \o Repeat("}", Count(tr, "{") - Count(tr, "}"))

\* truncated += '}' * open_braces + ']' * open_brackets
Balanced(tr) ==
    LET open_braces == Count(tr, "{") - Count(tr, "}")
        open_brackets == Count(tr, "[") - Count(tr, "]")
    IN  tr \o Repeat("}", open_braces) \o Repeat("]", open_brackets)

\* the text stage 3b decodes
Stage3bText(ft) == Balanced(Truncated(ft))

(***************************************************************************)
(* Stage 4: the slice from the first opener to the last closer.            *)
(***************************************************************************)
\* the slice starts at the first brace
start_idx_brace(ft) == Find(ft, "{")

start_idx(ft) ==
    LET first_brace == Find(ft, "{")
        first_bracket == Find(ft, "[")
    IN  IF first_brace # 0 /\ first_bracket # 0
        THEN Min(first_brace, first_bracket)
        ELSE IF first_brace # 0 THEN first_brace
        ELSE first_bracket

\* the slice ends at the first closing character
end_idx_first(ft) == FindFrom(ft, {"}", "]"}, 1)

end_idx(ft) ==
    LET last_brace == RFind(ft, "}")
        last_bracket == RFind(ft, "]")
    IN  IF last_brace # 0 /\ last_bracket # 0
        THEN Max(last_brace, last_bracket)
        ELSE IF last_brace # 0 THEN last_brace
        ELSE last_bracket

\* stage 4 makes its decode attempt
Stage4Attempts(ft) ==
    start_idx(ft) # 0 /\ end_idx(ft) # 0 /\ end_idx(ft) > start_idx(ft)

\* extracted
Stage4Text(ft) == SubSeq(ft, start_idx(ft), end_idx(ft))

(***************************************************************************)
(* Stage 5: the fallback shapes.  A context label is a text.               *)
(***************************************************************************)
Syllabus == <<"s", "y", "l", "l", "a", "b", "u", "s">>

SyllabusFallback(context) ==
    JObj(PutMember(PutMember(PutMember(<<>>,
        <<"t", "i", "t", "l", "e">>,
        JStr(context \o <<" ", "S", "y", "l", "l", "a", "b", "u", "s", " ",
                          "(", "P", "a", "r", "s", "e", " ",
                          "E", "r", "r", "o", "r", ")">>)),
        <<"o", "v", "e", "r", "v", "i", "e", "w">>,
        JStr(<<"J", "S", "O", "N", " ", "p", "a", "r", "s", "i", "n", "g", " ",
               "f", "a", "i", "l", "e", "d">>)),
        <<"m", "o", "d", "u", "l", "e", "s">>, JArr(<<>>)))

DefaultFallback ==
    JObj(PutMember(PutMember(<<>>,
        <<"w", "e", "e", "k", "_", "p", "l", "a", "n">>, JObj(<<>>)),
        <<"d", "a", "i", "l", "y", "_", "t", "a", "s", "k", "s">>, JObj(<<>>)))

Fallback(context) ==
    IF context = Syllabus THEN SyllabusFallback(context) ELSE DefaultFallback

(***************************************************************************)
(* How a call ends: it returns a value or an exception leaves it.          *)
(***************************************************************************)
NoResult == [kind |-> "none", val |-> NoValue, exc |-> ""]
Return(value) == [kind |-> "return", val |-> value, exc |-> ""]
Raise(e) == [kind |-> "raise", val |-> NoValue, exc |-> e.err]

(***************************************************************************)
(* The whole call as one function of its arguments: what an invocation     *)
(* returns when it runs alone.                                             *)
(***************************************************************************)
\* lines 163-241: from the decode of the normalized text ft2, which ended
\* as r2, to the end of the call
RunRepairs(ft2, r2, context) ==
    LET does3a == IsUnterminated(r2) /\ Stage3aAttempts(ft2, r2)
        ft3 == IF does3a THEN Stage3aText(ft2, r2) ELSE ft2
        does3b == IsUnterminated(r2) /\ Stage3bAttempts(ft3)
        does4 == Stage4Attempts(ft3)
    IN  IF r2.ok THEN Return(r2.val)
        ELSE IF IsRecursionError(r2) THEN Raise(r2)
        ELSE IF does3a /\ loads(ft3).ok THEN Return(loads(ft3).val)
        ELSE IF does3b /\ loads(Stage3bText(ft3)).ok
        THEN Return(loads(Stage3bText(ft3)).val)
        ELSE IF does4 /\ loads(Stage4Text(ft3)).ok
        THEN Return(loads(Stage4Text(ft3)).val)
        ELSE Return(Fallback(context))

RunAlone(text, context) ==
    LET r1 == loads(text)
    IN  IF r1.ok THEN Return(r1.val)
        ELSE IF IsRecursionError(r1) THEN Raise(r1)
        ELSE RunRepairs(Normalize(text), loads(Normalize(text)), context)

(***************************************************************************)
(* The inputs of the model.                                                *)
(***************************************************************************)
\* longest text drawn from ShortAlphabet
MaxLen == 4

ShortAlphabet == {"[", "]", "{", "}", "\"", ","}

\* every text over ShortAlphabet of at most MaxLen characters
ShortTexts == UNION {[1..n -> ShortAlphabet] : n \in 0..MaxLen}

\* containers nested up to one level past the recursion limit, bare, behind
\* a single-quoted key and inside a code block
NestedTexts ==
    LET deep == {Repeat("[", k) \o Repeat("]", j) :
                     k \in RecursionLimit..(RecursionLimit + 1),
                     j \in {0, RecursionLimit, RecursionLimit + 1}}
    IN  deep
        \cup {<<"{", "'", "a", "'", ":">> \o d \o <<"}">> : d \in deep}
        \cup {<<Backtick, Backtick, Backtick>> \o d
                  \o <<Backtick, Backtick, Backtick>> : d \in deep}

(***************************************************************************)
(* Documents as a model replies with them, and what truncation or the loss *)
(* of one character makes of them.                                         *)
(***************************************************************************)
Documents ==
    {
      \* single-quoted keys and values: {'a': 'b', 'c': 1}
      <<"{", "'", "a", "'", ":", " ", "'", "b", "'", ",", " ", "'",
        "c", "'", ":", " ", "1", "}">>,
      \* a trailing comma: {"a": 1, "b": 2,}
      <<"{", "\"", "a", "\"", ":", " ", "1", ",", " ", "\"", "b",
        "\"", ":", " ", "2", ",", "}">>,
      \* a code block labelled json, on lines of its own, inside prose
      <<"o", "k", " ", "BQ", "BQ", "BQ", "j", "s", "o", "n", "\n",
        "{", "\"", "a", "\"", ":", " ", "1", "}", "\n", "BQ", "BQ",
        "BQ", " ", "s", "o">>,
      \* an object embedded in prose: so: {"a": 1} ok
      <<"s", "o", ":", " ", "{", "\"", "a", "\"", ":", " ", "1", "}",
        " ", "o", "k">>,
      \* a nested document: {"a": ["x", "y"], "b": {"c": "d"}}
      <<"{", "\"", "a", "\"", ":", " ", "[", "\"", "x", "\"", ",",
        " ", "\"", "y", "\"", "]", ",", " ", "\"", "b", "\"", ":",
        " ", "{", "\"", "c", "\"", ":", " ", "\"", "d", "\"", "}",
        "}">>,
      \* a document of four lines: {, "a": "x", then "b": [1, 2] and }
      <<"{", "\n", "\"", "a", "\"", ":", " ", "\"", "x", "\"", ",",
        "\n", "\"", "b", "\"", ":", " ", "[", "1", ",", " ", "2",
        "]", "\n", "}">>,
      \* escapes inside a string: {"a": "x\"y\\"}
      <<"{", "\"", "a", "\"", ":", " ", "\"", "x", "\\", "\"", "y",
        "\\", "\\", "\"", "}">>,
      \* no document at all: no json
      <<"n", "o", " ", "j", "s", "o", "n">>
    }

\* every prefix of a document
Prefixes(d) == {SubSeq(d, 1, n) : n \in 0..Len(d)}

\* a document with one character dropped
Deletions(d) == {SubSeq(d, 1, i - 1) \o SubSeq(d, i + 1, Len(d)) : i \in 1..Len(d)}

DocumentTexts == UNION {Prefixes(d) \cup Deletions(d) : d \in Documents}

(***************************************************************************)
(* Objects of one or two members, each key and value written in one of     *)
(* several quoting styles.                                                 *)
(***************************************************************************)
\* the ways a member's key is written in ObjectTexts
KeyForms ==
    {
      <<"'", "a", "'">>,   \* single-quoted, the colon follows at once
      <<"\"", "a", "\"">>,   \* double-quoted
      <<"'", "a", "'", " ">>,   \* single-quoted, a space before the colon
      <<"'", "a", " ", "b", "'">>   \* single-quoted, not made of word characters
    }

\* the ways a member's value is written in ObjectTexts
ValueForms ==
    {
      <<"'", "b", "'">>,   \* single-quoted
      <<"1">>,   \* a number
      <<"\"", "b", "\"">>,   \* double-quoted
      <<"'", ",", "}", "'">>,   \* single-quoted, holding a comma and a closing brace
      <<"\"", "'", "k", "'", ":", "\"">>,   \* double-quoted, holding what looks like a single-quoted key
      <<"'", "x", ":", " ", "'">>,   \* single-quoted, holding a colon
      <<"[", "'", "b", "'", "]">>   \* an array of a single-quoted string
    }

\* key, colon, space, value
MemberTexts == {k \o <<":", " ">> \o v : k \in KeyForms, v \in ValueForms}

ObjectTexts ==
    {<<"{">> \o m \o <<"}">> : m \in MemberTexts}
    \cup {<<"{">> \o m \o <<",", " ">> \o n \o <<"}">> :
              m \in MemberTexts, n \in MemberTexts}

(***************************************************************************)
(* Valid documents, and the texts a model makes of them: a comma before a  *)
(* closing brace or bracket, a code block inside prose, prose around the   *)
(* bare document.                                                          *)
(***************************************************************************)
ValidDocuments ==
    {
      <<"1">>,
      <<"[", "1", "]">>,
      \* {"a": [1, 2]}
      <<"{", "\"", "a", "\"", ":", " ", "[", "1", ",", " ", "2", "]", "}">>,
      \* a string holding a closing bracket: ["x]"]
      <<"[", "\"", "x", "]", "\"", "]">>,
      \* a string holding an apostrophe: ["o's"]
      <<"[", "\"", "o", "'", "s", "\"", "]">>,
      \* a string holding a comma and a closing brace: {"a": ",}"}
      <<"{", "\"", "a", "\"", ":", " ", "\"", ",", "}", "\"", "}">>,
      \* a string holding what looks like a single-quoted key: ["'k':"]
      <<"[", "\"", "'", "k", "'", ":", "\"", "]">>,
      \* a string holding a code fence
      <<"[", "\"", Backtick, Backtick, Backtick, "\"", "]">>
    }

\* a comma, and nothing, a space or a line end after it
CommaForms == {<<",">>, <<",", " ">>, <<",", "\n">>}

\* a document with a comma put before one of its closing characters
TrailingCommaTexts ==
    UNION {{SubSeq(d, 1, p - 1) \o c \o SubSeq(d, p, Len(d)) :
                p \in {q \in 1..Len(d) : d[q] \in {"}", "]"}},
                c \in CommaForms} : d \in ValidDocuments}

\* the prose in front of a document
LeadingProse ==
    {<<>>,
     <<"o", "k", " ">>,
     <<"s", "o", ":", " ", "'", "x", " ">>,
     <<"s", "o", " ", Backtick>>,
     <<"\"">>}

\* the prose behind a document
TrailingProse ==
    {<<>>,
     <<" ", "s", "o">>,
     <<" ", Backtick, Backtick, Backtick, "o", "k">>,
     <<"\"">>}

\* the opening of a code block: the fence, with or without its label and
\* with or without a line end
FenceOpenings ==
    {<<Backtick, Backtick, Backtick>> \o l \o g :
         l \in {<<>>, <<"j", "s", "o", "n">>}, g \in {<<>>, <<"\n">>}}

FencedTexts ==
    {a \o f \o d \o <<Backtick, Backtick, Backtick>> \o b :
         a \in LeadingProse, f \in FenceOpenings, d \in ValidDocuments,
         b \in TrailingProse}

EmbeddedTexts ==
    {a \o d \o b : a \in LeadingProse, d \in ValidDocuments,
                   b \in TrailingProse}

\* containers left open, a string that is opened before a closing character
\* and never closed, and an apostrophe at the end of the text:
\* ["]', {"a": ["]', {"a": [["]' and [{"a": "}'
OpenStringTexts ==
    {<<"[", "\"", "]", "'">>,
     <<"{", "\"", "a", "\"", ":", " ", "[", "\"", "]", "'">>,
     <<"{", "\"", "a", "\"", ":", " ", "[", "[", "\"", "]", "'">>,
     <<"[", "{", "\"", "a", "\"", ":", " ", "\"", "}", "'">>}

Texts ==
    ShortTexts \cup NestedTexts \cup DocumentTexts \cup ObjectTexts
        \cup TrailingCommaTexts \cup FencedTexts \cup EmbeddedTexts
        \cup OpenStringTexts

WeekPlan == <<"w", "e", "e", "k", "_", "p", "l", "a", "n">>
Json == <<"j", "s", "o", "n">>

\* the labels the callers pass, and the default of the parameter
Contexts == {Syllabus, WeekPlan, Json}

(***************************************************************************)
(* The state: one call frame per running invocation.                       *)
(***************************************************************************)
VARIABLES
    json_text,   \* json_text[t]: the text invocation t was called with
    context,     \* context[t]: its context label
    fixed_text,  \* fixed_text[f]: the working text of call frame f
    e2,          \* e2[f]: the JSONDecodeError of the stage-2 decode
    pc,          \* pc[t]: the stage invocation t is about to run
    result,      \* result[t]: how the call ended
    attempts,    \* attempts[t]: the decode attempts made so far, in order
    returned,    \* the calls that have ended, in the order they ended
    calls,       \* the number of calls started
    users,       \* the rows of table users, in the order they were created
    diagnostics, \* the (user, subject) pairs that have rows in diagnostics
    progress,    \* the (user, subject) pairs that have topic scores in progress
    profiles,    \* the rows of table weakness_profiles
    paths,       \* the rows of table learning_paths, in the order created
    response,    \* the request answered last, with the status of the answer
    requests,    \* the number of requests answered
    analysed,    \* the (user, subject) pairs whose weakness analysis got a 200
    configured,  \* get_openai_client() yields a client
    inflight,    \* the study-plan requests between their lookup and their write
    global_client, \* the module global _client: 0 for None, else the instance
    built,       \* the number of client objects constructed so far
    callers,     \* callers[t]: where thread t is inside get_openai_client
    study_plan,  \* the plan handed to _clean_video_urls_in_study_plan
    cleaned      \* the plan it returned

\* the state of the calls of _parse_json_with_recovery
parser == <<json_text, context, fixed_text, e2, pc, result, attempts,
            returned, calls>>

\* the state of the server: its tables, its last answer, its settings
api == <<users, diagnostics, progress, profiles, paths, response, requests,
         analysed, configured, inflight, global_client, built, callers,
         study_plan, cleaned>>

vars == <<parser, api>>

Threads == DOMAIN pc

\* one frame for every invocation, as if fixed_text and e2 were module-level
frame_shared(t) == 1

\* the frame that holds invocation t's locals fixed_text and e2
frame(t) == t

NoError == DecodeFail("", 0)

\* one decode attempt, as the history records it
Attempt(stage, text, r) ==
    [stage |-> stage, text |-> text, ok |-> r.ok, val |-> r.val]

\* another invocation is between its call and its return
Overlapped(t) == \E u \in Threads \ {t} : pc[u] \notin {"idle", "done"}

\* the call of invocation t ends with result res
Finish(t, res) ==
    /\ result' = [result EXCEPT ![t] = res]
    /\ pc' = [pc EXCEPT ![t] = "done"]
    /\ returned' = Append(returned,
           [text |-> json_text[t], context |-> context[t], result |-> res,
            overlapped |-> Overlapped(t)])

\* invocation t goes on to the next stage
Goto(t, stage) ==
    /\ pc' = [pc EXCEPT ![t] = stage]
    /\ UNCHANGED <<result, returned>>

\* where control goes when the stage-2 decode raised JSONDecodeError e
AfterStage2(e) == IF IsUnterminated(e) THEN "stage3a" ELSE "stage4"

\* where control goes when a repair attempt failed or was not made
AfterStage3a == "stage3b"

\* the quote insertion is tried again after the truncation failed
AfterStage3bRetry == "stage3a"

AfterStage3b == "stage4"

\* the truncation is tried after the extraction failed
AfterStage4Truncate == "stage3b"

AfterStage4 == "fallback"

\* the normalization is applied before the first decode
Stage1TextNormalized(text) == Normalize(text)

\* the text stage 1 decodes
Stage1Text(text) == text

\* lines 138-141: json.loads(json_text), except json.JSONDecodeError
Stage1(t) ==
    /\ pc[t] = "stage1"
    /\ LET text == Stage1Text(json_text[t])
           r == loads(text)
       IN  /\ attempts' = [attempts EXCEPT
                              ![t] = Append(@, Attempt("stage1", text, r))]
           /\ IF r.ok THEN Finish(t, Return(r.val))
              ELSE IF IsRecursionError(r) THEN Finish(t, Raise(r))
              ELSE Goto(t, "stage2")
    /\ UNCHANGED <<json_text, context, fixed_text, e2, calls>>
    /\ UNCHANGED api

\* lines 146-165: normalize, json.loads(fixed_text), except JSONDecodeError
Stage2(t) ==
    /\ pc[t] = "stage2"
    /\ LET text == Normalize(json_text[t])
           r == loads(text)
       IN  /\ fixed_text' = [fixed_text EXCEPT ![frame(t)] = text]
           /\ attempts' = [attempts EXCEPT
                              ![t] = Append(@, Attempt("stage2", text, r))]
           /\ IF r.ok THEN Finish(t, Return(r.val)) /\ UNCHANGED e2
              ELSE IF IsRecursionError(r)
              THEN Finish(t, Raise(r)) /\ UNCHANGED e2
              ELSE /\ e2' = [e2 EXCEPT ![frame(t)] = r]
                   /\ Goto(t, AfterStage2(r))
    /\ UNCHANGED <<json_text, context, calls>>
    /\ UNCHANGED api

\* lines 173-193: insert the quote and decode, bare except
Stage3a(t) ==
    /\ pc[t] = "stage3a"
    /\ LET ft == fixed_text[frame(t)]
           e == e2[frame(t)]
           text == Stage3aText(ft, e)
           r == loads(text)
       IN  IF Stage3aAttempts(ft, e)
           THEN /\ fixed_text' = [fixed_text EXCEPT ![frame(t)] = text]
                /\ attempts' = [attempts EXCEPT
                       ![t] = Append(@, Attempt("stage3a", text, r))]
                /\ IF r.ok THEN Finish(t, Return(r.val))
                   ELSE Goto(t, AfterStage3a)
           ELSE /\ Goto(t, AfterStage3a)
                /\ UNCHANGED <<fixed_text, attempts>>
    /\ UNCHANGED <<json_text, context, e2, calls>>
    /\ UNCHANGED api

\* lines 195-213: truncate, balance and decode, bare except
Stage3b(t) ==
    /\ pc[t] = "stage3b"
    /\ LET ft == fixed_text[frame(t)]
           text == Stage3bText(ft)
           r == loads(text)
       IN  IF Stage3bAttempts(ft)
           THEN /\ attempts' = [attempts EXCEPT
                       ![t] = Append(@, Attempt("stage3b", text, r))]
                /\ IF r.ok THEN Finish(t, Return(r.val))
                   ELSE Goto(t, AfterStage3b)
           ELSE /\ Goto(t, AfterStage3b)
                /\ UNCHANGED attempts
    /\ UNCHANGED <<json_text, context, fixed_text, e2, calls>>
    /\ UNCHANGED api

\* lines 218-234: slice from the first opener to the last closer and decode
Stage4(t) ==
    /\ pc[t] = "stage4"
    /\ LET ft == fixed_text[frame(t)]
           text == Stage4Text(ft)
           r == loads(text)
       IN  IF Stage4Attempts(ft)
           THEN /\ attempts' = [attempts EXCEPT
                       ![t] = Append(@, Attempt("stage4", text, r))]
                /\ IF r.ok THEN Finish(t, Return(r.val))
                   ELSE Goto(t, AfterStage4)
           ELSE /\ Goto(t, AfterStage4)
                /\ UNCHANGED attempts
    /\ UNCHANGED <<json_text, context, fixed_text, e2, calls>>
    /\ UNCHANGED api

\* the label is read from what the call that ended last left behind
FallbackOfLatest(t) ==
    IF returned = <<>> THEN Fallback(context[t])
    ELSE Fallback(returned[Len(returned)].context)

\* the structure invocation t returns when all else failed
FallbackOf(t) == Fallback(context[t])

\* lines 236-241: the empty structure for the context
ReturnFallback(t) ==
    /\ pc[t] = "fallback"
    /\ Finish(t, Return(FallbackOf(t)))
    /\ UNCHANGED <<json_text, context, fixed_text, e2, attempts, calls>>
    /\ UNCHANGED api

\* no request has been made of the server
NoRequests ==
    /\ users = <<>>
    /\ diagnostics = {}
    /\ progress = {}
    /\ profiles = {}
    /\ paths = <<>>
    /\ response = [view |-> "", sevis_pass_id |-> "", subject |-> "",
                   password |-> "", status |-> 0]
    /\ requests = 0
    /\ analysed = {}
    /\ inflight = {}
    /\ global_client = 0
    /\ built = 0
    /\ callers = <<>>
    /\ study_plan = NoValue
    /\ cleaned = NoValue

\* one call, of any text with any context label
Init ==
    /\ json_text \in [{1} -> Texts]
    /\ context \in [{1} -> Contexts]
    /\ fixed_text = [f \in {1} |-> <<>>]
    /\ e2 = [f \in {1} |-> NoError]
    /\ pc = [t \in {1} |-> "stage1"]
    /\ result = [t \in {1} |-> NoResult]
    /\ attempts = [t \in {1} |-> <<>>]
    /\ returned = <<>>
    /\ calls = 1
    /\ NoRequests
    /\ configured = FALSE

Next ==
    \/ \E t \in Threads : Stage1(t)
    \/ \E t \in Threads : Stage2(t)
    \/ \E t \in Threads : Stage3a(t)
    \/ \E t \in Threads : Stage3b(t)
    \/ \E t \in Threads : Stage4(t)
    \/ \E t \in Threads : ReturnFallback(t)

Spec == Init /\ [][Next]_vars

(***************************************************************************)
(* Calls in sequence and in parallel.  The function is a module-level      *)
(* function of the views' worker threads: a thread calls it, the call runs *)
(* stage by stage in a frame of its own, and when it has ended the thread  *)
(* may call it again.  Steps of different threads interleave.              *)
(***************************************************************************)
MaxCalls == 3

\* the texts the threads call the function with: valid once normalized,
\* unterminated and extracted by stage 4, unterminated and beyond repair
CallTexts ==
    {<<"[", "1", ",", "]">>,
     <<"\"", "[", "]">>,
     <<"[", "\"", "}">>}

CallContexts == {Syllabus, Json}

\* line 133: thread t calls _parse_json_with_recovery(text, label)
Call(t) ==
    /\ pc[t] \in {"idle", "done"}
    /\ calls < MaxCalls
    /\ \E text \in CallTexts, label \in CallContexts :
           /\ json_text' = [json_text EXCEPT ![t] = text]
           /\ context' = [context EXCEPT ![t] = label]
    /\ fixed_text' = [fixed_text EXCEPT ![frame(t)] = <<>>]
    /\ e2' = [e2 EXCEPT ![frame(t)] = NoError]
    /\ pc' = [pc EXCEPT ![t] = "stage1"]
    /\ result' = [result EXCEPT ![t] = NoResult]
    /\ attempts' = [attempts EXCEPT ![t] = <<>>]
    /\ calls' = calls + 1
    /\ UNCHANGED returned
    /\ UNCHANGED api

InitThreads ==
    /\ json_text = [t \in {1, 2} |-> <<>>]
    /\ context = [t \in {1, 2} |-> Json]
    /\ fixed_text = [f \in {1, 2} |-> <<>>]
    /\ e2 = [f \in {1, 2} |-> NoError]
    /\ pc = [t \in {1, 2} |-> "idle"]
    /\ result = [t \in {1, 2} |-> NoResult]
    /\ attempts = [t \in {1, 2} |-> <<>>]
    /\ returned = <<>>
    /\ calls = 0
    /\ NoRequests
    /\ configured = FALSE

NextThreads ==
    \/ \E t \in Threads : Call(t)
    \/ \E t \in Threads : Stage1(t)
    \/ \E t \in Threads : Stage2(t)
    \/ \E t \in Threads : Stage3a(t)
    \/ \E t \in Threads : Stage3b(t)
    \/ \E t \in Threads : Stage4(t)
    \/ \E t \in Threads : ReturnFallback(t)

SpecThreads == InitThreads /\ [][NextThreads]_vars

(***************************************************************************)
(* The endpoints of core/views.py over the tables of core/models.py, with  *)
(* the two functions of core/ai_services.py they call.  A request is       *)
(* answered in one step.  A row keeps the columns the endpoints branch on. *)
(***************************************************************************)
\* the requests answered in a run
MaxRequests == 4

\* a field the request does not carry (request.data.get yields None or '')
NoField == ""

\* the SevisPass ID the requests carry (the one of test_endpoints.py)
SevisPassIds == {"test-api-123"}

RawPasswords == {"123456", "secret"}

Subjects == {"math", "english"}

\* django.contrib.auth.hashers; the column default '' is NoPassword
make_password(raw) == [algorithm |-> "pbkdf2_sha256", raw |-> raw]
check_password(raw, encoded) == encoded = make_password(raw)
NoPassword == [algorithm |-> "", raw |-> ""]

\* the keys the views and the services read
Key ==
    [weaknesses |->
         <<"w", "e", "a", "k", "n", "e", "s", "s", "e", "s">>,
     strengths |->
         <<"s", "t", "r", "e", "n", "g", "t", "h", "s">>,
     week_plan |->
         <<"w", "e", "e", "k", "_", "p", "l", "a", "n">>,
     daily_tasks |->
         <<"d", "a", "i", "l", "y", "_", "t", "a", "s", "k", "s">>,
     modules |->
         <<"m", "o", "d", "u", "l", "e", "s">>,
     learning_materials |->
         <<"l", "e", "a", "r", "n", "i", "n", "g", "_", "m", "a", "t",
         "e", "r", "i", "a", "l", "s">>,
     lecture_notes |->
         <<"l", "e", "c", "t", "u", "r", "e", "_", "n", "o", "t", "e",
         "s">>,
     videos |->
         <<"v", "i", "d", "e", "o", "s">>,
     practice_exercises |->
         <<"p", "r", "a", "c", "t", "i", "c", "e", "_", "e", "x", "e",
         "r", "c", "i", "s", "e", "s">>,
     video_url |->
         <<"v", "i", "d", "e", "o", "_", "u", "r", "l">>,
     title |->
         <<"t", "i", "t", "l", "e">>,
     related |->
         <<"r", "e", "l", "a", "t", "e", "d">>,
     week_1 |->
         <<"w", "e", "e", "k", "_", "1">>]

\* dict.get(key, default); on anything but a dict it raises AttributeError
IsDict(v) == v.t = "obj"
Get(v, key, default) ==
    IF v.members # <<>> /\ key \in DOMAIN v.members
    THEN v.members[key] ELSE default

\* bool(v)
Truthy(v) ==
    CASE v.t = "str" -> v.s # <<>>
      [] v.t = "num" -> v.s # <<"0">>
      [] v.t = "arr" -> v.items # <<>>
      [] v.t = "obj" -> v.members # <<>>
      [] OTHER -> FALSE

\* len(v) is defined
Sized(v) == v.t \in {"str", "arr", "obj"}

\* what the model replies to the prompt of analyze_weaknesses: the object
\* asked for, a list where the mapping of topics was asked for, and a bare
\* list
AnalysisReplies ==
    {<<"{", "\"", "w", "e", "a", "k", "n", "e", "s", "s", "e", "s", "\"",
       ":", " ", "{", "\"", "a", "l", "g", "e", "b", "r", "a", "\"", ":",
       " ", "1", "}", "}">>,
     <<"{", "\"", "w", "e", "a", "k", "n", "e", "s", "s", "e", "s", "\"",
       ":", " ", "[", "\"", "a", "l", "g", "e", "b", "r", "a", "\"", "]",
       "}">>,
     <<"[", "\"", "a", "l", "g", "e", "b", "r", "a", "\"", "]">>}

\* what the model replies to the prompts of generate_study_plan: a week
\* plan in a code block, and brackets nested past the recursion limit
StudyPlanReplies ==
    {<<"BQ", "BQ", "BQ", "j", "s", "o", "n", "\n", "{", "\"", "w", "e",
       "e", "k", "_", "p", "l", "a", "n", "\"", ":", " ", "{", "\"", "w",
       "e", "e", "k", "_", "1", "\"", ":", " ", "{", "}", "}", "}", "\n",
       "BQ", "BQ", "BQ">>,
     Repeat("[", RecursionLimit + 1)}

\* content.strip(), then text.split(fence)[1] without a leading json,
\* stripped, when the text starts with a fence (lines 349-354, 688-692,
\* 725-730)
ReplyText(content) ==
    LET text == Strip(content)
        q == FenceFrom(text, 4)
        part == IF q = 0 THEN SubSeq(text, 4, Len(text))
                ELSE SubSeq(text, 4, q - 1)
        body == IF Len(part) >= 4 /\ SubSeq(part, 1, 4) = <<"j", "s", "o", "n">>
                THEN SubSeq(part, 5, Len(part)) ELSE part
    IN  IF FenceAt(text, 1) THEN Strip(body) ELSE text

\* lines 277-283 and 366-372: the result without a client, and when the
\* request to the model or the decode of its reply raised; baseline_score, confidence_score and
\* recommended_difficulty are left out, as they are from the replies
AnalysisFallback ==
    JObj((Key.weaknesses :> JObj(<<>>)) @@ (Key.strengths :> JObj(<<>>)))

\* lines 257-372: json.loads of the reply, any exception gives the fallback;
\* without a client the same result is returned at once (lines 270-283)
analyze_weaknesses(client, reply) ==
    LET r == loads(ReplyText(reply))
    IN  IF client /\ r.ok THEN r.val ELSE AnalysisFallback

\* the week_plan and daily_tasks of lines 396-411 (suffix empty) and of
\* lines 797-818 (suffix " (Fallback)")
WeekPlanWith(suffix) ==
    JObj(<<"w", "e", "e", "k", "_", "1">> :>
         JObj((<<"f", "o", "c", "u", "s">> :>
                   JStr(<<"F", "o", "u", "n", "d", "a", "t", "i", "o",
                          "n", " ", "r", "e", "v", "i", "e", "w">>
                        \o suffix))
              @@ (<<"t", "o", "p", "i", "c", "s">> :>
                      JArr(<<JStr(<<"B", "a", "s", "i", "c", " ", "c", "o", "n",
                          "c", "e", "p", "t", "s">>)>>))
              @@ (<<"g", "o", "a", "l", "s">> :>
                      JArr(<<JStr(<<"B", "u", "i", "l", "d", " ", "c", "o", "n",
                          "f", "i", "d", "e", "n", "c", "e">>),
                             JStr(<<"R", "e", "v", "i", "e", "w", " ", "f", "u",
                          "n", "d", "a", "m", "e", "n", "t", "a", "l", "s">>)>>))
              @@ (Key.learning_materials :> JArr(<<>>))))

DailyTasksWith(suffix) ==
    JObj(<<"d", "a", "y", "_", "1">> :>
         JObj((<<"l", "e", "s", "s", "o", "n">> :>
                   JStr(<<"I", "n", "t", "r", "o", "d", "u", "c", "t",
                          "i", "o", "n", " ", "t", "o", " ", "k", "e",
                          "y", " ", "c", "o", "n", "c", "e", "p", "t", "s">>
                        \o suffix))
              @@ (<<"p", "r", "a", "c", "t", "i", "c", "e">> :>
                      JArr(<<JStr(<<"P", "r", "a", "c", "t", "i", "c", "e", " ",
                          "e", "x", "e", "r", "c", "i", "s", "e", " ", "1">>)>>))
              @@ (<<"e", "s", "t", "i", "m", "a", "t", "e", "d",
                          "_", "t", "i", "m", "e">> :>
                      JStr(<<"3", "0", " ", "m", "i", "n", "u", "t", "e", "s">>))))

FallbackSuffix == <<" ", "(", "F", "a", "l", "l", "b", "a", "c",
                          "k", ")">>

\* what generate_study_plan hands back: the plan, or the exception
Plan(week_plan, daily_tasks) ==
    [raised |-> FALSE, week_plan |-> week_plan, daily_tasks |-> daily_tasks]
PlanError == [raised |-> TRUE, week_plan |-> NoValue, daily_tasks |-> NoValue]

\* lines 753-761: the report on the first week of a week plan that is not
\* empty raises nothing
FirstWeekReported(week_plan) ==
    Truthy(week_plan) =>
        /\ IsDict(week_plan)
        /\ LET first_week ==
                   week_plan.members[CHOOSE k \in DOMAIN week_plan.members : TRUE]
               learning_materials ==
                   Get(first_week, Key.learning_materials, JObj(<<>>))
           IN  /\ IsDict(first_week)
               /\ Truthy(learning_materials) =>
                      /\ IsDict(learning_materials)
                      /\ \A key \in {Key.lecture_notes, Key.videos,
                                     Key.practice_exercises} :
                             Sized(Get(learning_materials, key, JArr(<<>>)))

\* lines 655-768: nothing in the try block raises, syllabus and plan being
\* how the two calls of _parse_json_with_recovery end (lines 693, 733).
\* The replies hold no video_url, so _clean_video_urls_in_study_plan
\* leaves the plan as it is.
PlanGenerated(syllabus, plan) ==
    /\ syllabus.kind = "return"
    /\ IsDict(syllabus.val)
    /\ Sized(Get(syllabus.val, Key.modules, JArr(<<>>)))
    /\ plan.kind = "return"
    /\ IsDict(plan.val)
    /\ Sized(Get(plan.val, Key.week_plan, JObj(<<>>)))
    /\ Sized(Get(plan.val, Key.daily_tasks, JObj(<<>>)))
    /\ FirstWeekReported(Get(plan.val, Key.week_plan, JObj(<<>>)))

\* lines 655-818: the plan of the try block, and the fallback plan of the
\* except block when anything in it raised (770-818)
TryPlan(syllabus, plan) ==
    IF PlanGenerated(syllabus, plan)
    THEN Plan(Get(plan.val, Key.week_plan, JObj(<<>>)),
              Get(plan.val, Key.daily_tasks, JObj(<<>>)))
    ELSE Plan(WeekPlanWith(FallbackSuffix), DailyTasksWith(FallbackSuffix))

\* lines 387-818.  Without a client the default plan is returned (388-412).
\* Without topic scores the topics are read with weaknesses.keys() and
\* strengths.keys() (lines 430-431 and the prompt of lines 531-532), before
\* the try block of line 655: a value that is no dict raises there.
generate_study_plan(client, weaknesses, strengths, topic_scores, syllabus_reply, week_plan_reply) ==
    IF ~client THEN Plan(WeekPlanWith(<<>>), DailyTasksWith(<<>>))
    ELSE IF ~topic_scores /\ ~(IsDict(weaknesses) /\ IsDict(strengths))
    THEN PlanError
    ELSE TryPlan(RunAlone(ReplyText(syllabus_reply), Syllabus),
                 RunAlone(ReplyText(week_plan_reply), WeekPlan))

\* columns sevis_pass_id and password of a row of users
UserRow(id, password) == [sevis_pass_id |-> id, password |-> password]

\* the rows that User.objects.get(sevis_pass_id=id) looks at
UserRows(table, id) ==
    {i \in 1..Len(table) : table[i].sevis_pass_id = id}

\* the rows that WeaknessProfile.objects.get(user=, subject=) looks at
ProfileRows(table, id, subject) ==
    {p \in table : p.user = id /\ p.subject = subject}

\* the rows that LearningPath.objects.get(user=, subject=) looks at
PathRows(table, id, subject) ==
    {i \in 1..Len(table) : table[i].user = id /\ table[i].subject = subject}

\* the request is answered: Response(..., status=status), or the 500 that
\* Django makes of an exception no handler caught
Respond(view, id, subject, password, status) ==
    /\ response' = [view |-> view, sevis_pass_id |-> id, subject |-> subject,
                    password |-> password, status |-> status]
    /\ requests' = requests + 1

\* views.py lines 25-91.  name, grade_level, school and email do not decide
\* the answer and are left out of the rows.
LoginView(sevis_pass_id, password) ==
    /\ requests < MaxRequests
    /\ IF sevis_pass_id = NoField
       THEN Respond("login", sevis_pass_id, NoField, password, 400)
                /\ UNCHANGED users
       ELSE IF password = NoField
       THEN Respond("login", sevis_pass_id, NoField, password, 400)
                /\ UNCHANGED users
       ELSE IF UserRows(users, sevis_pass_id) # {}
       THEN LET i == CHOOSE i \in UserRows(users, sevis_pass_id) : TRUE
            IN  IF users[i].password # NoPassword
                THEN IF check_password(password, users[i].password)
                     THEN Respond("login", sevis_pass_id, NoField,
                                  password, 200) /\ UNCHANGED users
                     ELSE Respond("login", sevis_pass_id, NoField,
                                  password, 401) /\ UNCHANGED users
                ELSE /\ users' = [users EXCEPT
                                     ![i].password = make_password("123456")]
                     /\ Respond("login", sevis_pass_id, NoField,
                                password, 200)
       ELSE /\ users' = Append(users,
                           UserRow(sevis_pass_id, make_password(password)))
            /\ Respond("login", sevis_pass_id, NoField, password, 201)
    /\ UNCHANGED <<diagnostics, progress, profiles, paths, analysed,
                   configured>>
    /\ UNCHANGED <<inflight, global_client, built, callers, study_plan,
                   cleaned>>
    /\ UNCHANGED parser

\* views.py lines 120-158: the answers are stored under subject math
SubmitDiagnosticView(sevis_pass_id, answers) ==
    /\ requests < MaxRequests
    /\ IF sevis_pass_id = NoField
       THEN Respond("diagnostic", sevis_pass_id, NoField, NoField, 400)
                /\ UNCHANGED diagnostics
       ELSE IF ~answers
       THEN Respond("diagnostic", sevis_pass_id, NoField, NoField, 400)
                /\ UNCHANGED diagnostics
       ELSE IF UserRows(users, sevis_pass_id) = {}
       THEN Respond("diagnostic", sevis_pass_id, NoField, NoField, 404)
                /\ UNCHANGED diagnostics
       ELSE /\ diagnostics' = diagnostics \cup {<<sevis_pass_id, "math">>}
            /\ Respond("diagnostic", sevis_pass_id, NoField, NoField, 201)
    /\ UNCHANGED <<users, progress, profiles, paths, analysed, configured>>
    /\ UNCHANGED <<inflight, global_client, built, callers, study_plan,
                   cleaned>>
    /\ UNCHANGED parser

\* views.py lines 293-402: analysis_result.get raises when the service
\* handed back something that is no dict; update_or_create replaces the
\* row of the pair (unique_together) or creates it
AnalyzeWeaknessesView(sevis_pass_id, subject, reply) ==
    /\ requests < MaxRequests
    /\ IF sevis_pass_id = NoField
       THEN Respond("analyze", sevis_pass_id, subject, NoField, 400)
                /\ UNCHANGED <<profiles, analysed>>
       ELSE IF UserRows(users, sevis_pass_id) = {}
       THEN Respond("analyze", sevis_pass_id, subject, NoField, 404)
                /\ UNCHANGED <<profiles, analysed>>
       ELSE IF <<sevis_pass_id, subject>> \notin diagnostics
       THEN Respond("analyze", sevis_pass_id, subject, NoField, 404)
                /\ UNCHANGED <<profiles, analysed>>
       ELSE \E analysis_result \in {analyze_weaknesses(configured, reply)} :
                IF ~IsDict(analysis_result)
                THEN Respond("analyze", sevis_pass_id, subject, NoField, 500)
                         /\ UNCHANGED <<profiles, analysed>>
                ELSE /\ profiles' =
                            (profiles
                                \ ProfileRows(profiles, sevis_pass_id, subject))
                            \cup {[user |-> sevis_pass_id, subject |-> subject,
                                   weaknesses |-> Get(analysis_result,
                                       Key.weaknesses, JObj(<<>>)),
                                   strengths |-> Get(analysis_result,
                                       Key.strengths, JObj(<<>>))]}
                     /\ analysed' = analysed \cup {<<sevis_pass_id, subject>>}
                     /\ Respond("analyze", sevis_pass_id, subject, NoField,
                                200)
    /\ UNCHANGED <<users, diagnostics, progress, paths, configured>>
    /\ UNCHANGED <<inflight, global_client, built, callers, study_plan,
                   cleaned>>
    /\ UNCHANGED parser

\* views.py lines 412-472.  LearningPath has no field syllabus (models.py
\* lines 93-124), so update_or_create raises FieldError when it has to
\* create the row; a row that exists is updated; more than one row for the
\* pair raises MultipleObjectsReturned.
GenerateStudyPlanView(sevis_pass_id, subject, syllabus_reply, week_plan_reply) ==
    /\ requests < MaxRequests
    /\ IF sevis_pass_id = NoField
       THEN Respond("study_plan", sevis_pass_id, subject, NoField, 400)
                /\ UNCHANGED paths
       ELSE IF UserRows(users, sevis_pass_id) = {}
       THEN Respond("study_plan", sevis_pass_id, subject, NoField, 404)
                /\ UNCHANGED paths
       ELSE IF ProfileRows(profiles, sevis_pass_id, subject) = {}
       THEN Respond("study_plan", sevis_pass_id, subject, NoField, 404)
                /\ UNCHANGED paths
       ELSE LET weakness_profile ==
                    CHOOSE p \in ProfileRows(profiles, sevis_pass_id,
                                             subject) : TRUE
                topic_scores == <<sevis_pass_id, subject>> \in progress
                rows == PathRows(paths, sevis_pass_id, subject)
            IN  \E path_data \in
                       {generate_study_plan(configured,
                            weakness_profile.weaknesses,
                            weakness_profile.strengths, topic_scores,
                            syllabus_reply, week_plan_reply)} :
                    IF path_data.raised \/ Cardinality(rows) # 1
                    THEN Respond("study_plan", sevis_pass_id, subject,
                                 NoField, 500) /\ UNCHANGED paths
                    ELSE /\ paths' =
                                [i \in 1..Len(paths) |->
                                     IF i \in rows
                                     THEN [paths[i] EXCEPT
                                              !.week_plan = path_data.week_plan,
                                              !.daily_tasks =
                                                  path_data.daily_tasks,
                                              !.status = "active"]
                                     ELSE paths[i]]
                         /\ Respond("study_plan", sevis_pass_id, subject,
                                    NoField, 200)
    /\ UNCHANGED <<users, diagnostics, progress, profiles, analysed,
                   configured>>
    /\ UNCHANGED <<inflight, global_client, built, callers, study_plan,
                   cleaned>>
    /\ UNCHANGED parser

\* the pairs of every student with the two subjects of the command
MockPairs == {<<users[i].sevis_pass_id, subject>> :
                  i \in 1..Len(users), subject \in Subjects}

\* populate_mock_data.py lines 120-183: the topics drawn at random
MockWeaknesses == JObj(<<"a", "l", "g", "e", "b", "r", "a">> :> JNum(<<"1">>))
MockStrengths == JObj(<<"g", "e", "o", "m", "e", "t", "r", "y">> :> JNum(<<"1">>))

\* the rows _create_learning_paths adds for the pairs in todo, one after
\* the other, each with the status that status_of draws for it
RECURSIVE MockPaths(_, _, _)
MockPaths(table, todo, status_of) ==
    IF todo = {} THEN table
    ELSE LET pair == CHOOSE pair \in todo : TRUE
         IN  MockPaths(Append(table,
                 [user |-> pair[1], subject |-> pair[2],
                  week_plan |-> JObj(<<>>), daily_tasks |-> JObj(<<>>),
                  status |-> status_of[pair]]),
                 todo \ {pair}, status_of)

\* populate_mock_data.py lines 17-58: for every student, diagnostics of
\* both subjects, a weakness profile and a learning path for each subject
\* that has none, and topic scores for math
populate_mock_data ==
    /\ users # <<>>
    /\ diagnostics' = diagnostics \cup MockPairs
    /\ profiles' = profiles \cup
           {[user |-> pair[1], subject |-> pair[2],
             weaknesses |-> MockWeaknesses, strengths |-> MockStrengths] :
                pair \in {q \in MockPairs :
                              ProfileRows(profiles, q[1], q[2]) = {}}}
    /\ LET todo == {q \in MockPairs : PathRows(paths, q[1], q[2]) = {}}
       IN  \E status_of \in [todo -> {"active", "paused"}] :
               paths' = MockPaths(paths, todo, status_of)
    /\ progress' = progress \cup {q \in MockPairs : q[2] = "math"}
    /\ UNCHANGED <<users, response, requests, analysed, configured>>
    /\ UNCHANGED <<inflight, global_client, built, callers, study_plan,
                   cleaned>>
    /\ UNCHANGED parser

\* no thread is inside _parse_json_with_recovery
NoCalls ==
    /\ json_text = <<>>
    /\ context = <<>>
    /\ fixed_text = <<>>
    /\ e2 = <<>>
    /\ pc = <<>>
    /\ result = <<>>
    /\ attempts = <<>>
    /\ returned = <<>>
    /\ calls = 0

\* a server that may or may not hold an API key, and a database that is
\* empty or holds one user from before the password column was added, whose
\* password is the column default (models.py line 22, views.py lines 48-51)
InitApi ==
    /\ users \in {<<>>} \cup {<<UserRow(id, NoPassword)>> : id \in SevisPassIds}
    /\ diagnostics = {}
    /\ progress = {}
    /\ profiles = {}
    /\ paths = <<>>
    /\ response = [view |-> "", sevis_pass_id |-> "", subject |-> "",
                   password |-> "", status |-> 0]
    /\ requests = 0
    /\ analysed = {}
    /\ configured \in BOOLEAN
    /\ inflight = {}
    /\ global_client = 0
    /\ built = 0
    /\ callers = <<>>
    /\ study_plan = NoValue
    /\ cleaned = NoValue
    /\ NoCalls

NextApi ==
    \/ \E id \in SevisPassIds \cup {NoField},
          password \in RawPasswords \cup {NoField} : LoginView(id, password)
    \/ \E id \in SevisPassIds \cup {NoField}, answers \in BOOLEAN :
           SubmitDiagnosticView(id, answers)
    \/ \E id \in SevisPassIds \cup {NoField}, subject \in Subjects,
          reply \in AnalysisReplies : AnalyzeWeaknessesView(id, subject, reply)
    \/ \E id \in SevisPassIds \cup {NoField}, subject \in Subjects,
          syllabus_reply \in StudyPlanReplies,
          week_plan_reply \in StudyPlanReplies :
           GenerateStudyPlanView(id, subject, syllabus_reply, week_plan_reply)
    \/ populate_mock_data

SpecApi == InitApi /\ [][NextApi]_vars

(***************************************************************************)
(* Study-plan requests answered by threads of the server: between the      *)
(* lookup of update_or_create and its write other requests take steps.     *)
(***************************************************************************)
\* the threads that answer study-plan requests
Workers == {"w1", "w2"}

\* the row is created and stored
create_stored(table, row) == [raised |-> FALSE, table |-> Append(table, row)]

\* update_or_create found no row and creates one from the lookup and the
\* defaults (views.py lines 458-467): syllabus, one of the defaults, is no
\* field of LearningPath (models.py lines 95-122), so FieldError is raised
\* before anything is inserted
create(table, row) == [raised |-> TRUE, table |-> table]

\* views.py lines 412-457 and the get of update_or_create, by thread w
StudyPlanLookup(w, sevis_pass_id, subject, syllabus_reply, week_plan_reply) ==
    /\ requests + Cardinality(inflight) < MaxRequests
    /\ \A r \in inflight : r.worker # w
    /\ IF sevis_pass_id = NoField
       THEN Respond("study_plan", sevis_pass_id, subject, NoField, 400)
                /\ UNCHANGED inflight
       ELSE IF UserRows(users, sevis_pass_id) = {}
       THEN Respond("study_plan", sevis_pass_id, subject, NoField, 404)
                /\ UNCHANGED inflight
       ELSE IF ProfileRows(profiles, sevis_pass_id, subject) = {}
       THEN Respond("study_plan", sevis_pass_id, subject, NoField, 404)
                /\ UNCHANGED inflight
       ELSE LET weakness_profile ==
                    CHOOSE p \in ProfileRows(profiles, sevis_pass_id,
                                             subject) : TRUE
                topic_scores == <<sevis_pass_id, subject>> \in progress
            IN  \E path_data \in
                       {generate_study_plan(configured,
                            weakness_profile.weaknesses,
                            weakness_profile.strengths, topic_scores,
                            syllabus_reply, week_plan_reply)} :
                    IF path_data.raised
                    THEN Respond("study_plan", sevis_pass_id, subject,
                                 NoField, 500) /\ UNCHANGED inflight
                    ELSE /\ inflight' = inflight \cup
                                {[worker |-> w, user |-> sevis_pass_id,
                                  subject |-> subject,
                                  week_plan |-> path_data.week_plan,
                                  daily_tasks |-> path_data.daily_tasks,
                                  rows |-> PathRows(paths, sevis_pass_id,
                                                    subject),
                                  at |-> requests]}
                         /\ UNCHANGED <<response, requests>>
    /\ UNCHANGED <<users, diagnostics, progress, profiles, paths, analysed,
                   configured>>
    /\ UNCHANGED <<global_client, built, callers, study_plan, cleaned>>
    /\ UNCHANGED parser

\* views.py lines 458-472, the write of update_or_create and the answer:
\* the row the lookup found is saved, a missing row is created, and more
\* than one row made the lookup raise MultipleObjectsReturned
StudyPlanStore(w) ==
    /\ \E r \in inflight :
           /\ r.worker = w
           /\ inflight' = inflight \ {r}
           /\ IF Cardinality(r.rows) = 1
              THEN /\ paths' =
                          [i \in 1..Len(paths) |->
                               IF i \in r.rows
                               THEN [paths[i] EXCEPT
                                        !.week_plan = r.week_plan,
                                        !.daily_tasks = r.daily_tasks,
                                        !.status = "active"]
                               ELSE paths[i]]
                   /\ Respond("study_plan", r.user, r.subject, NoField, 200)
              ELSE IF r.rows = {}
              THEN \E made \in
                         {create(paths,
                              [user |-> r.user, subject |-> r.subject,
                               week_plan |-> r.week_plan,
                               daily_tasks |-> r.daily_tasks,
                               status |-> "active"])} :
                       /\ paths' = made.table
                       /\ Respond("study_plan", r.user, r.subject, NoField,
                                  IF made.raised THEN 500 ELSE 200)
              ELSE /\ Respond("study_plan", r.user, r.subject, NoField, 500)
                   /\ UNCHANGED paths
    /\ UNCHANGED <<users, diagnostics, progress, profiles, analysed,
                   configured>>
    /\ UNCHANGED <<global_client, built, callers, study_plan, cleaned>>
    /\ UNCHANGED parser

\* a database as the requests of SpecApi leave it: one student has logged
\* in, submitted a diagnostic and had the weaknesses analysed for math; no
\* learning path is stored yet
InitRace ==
    /\ configured \in BOOLEAN
    /\ \E id \in SevisPassIds, reply \in AnalysisReplies :
           \E analysis_result \in {analyze_weaknesses(configured, reply)} :
               /\ IsDict(analysis_result)
               /\ users = <<UserRow(id, make_password("123456"))>>
               /\ diagnostics = {<<id, "math">>}
               /\ profiles =
                      {[user |-> id, subject |-> "math",
                        weaknesses |-> Get(analysis_result, Key.weaknesses,
                                           JObj(<<>>)),
                        strengths |-> Get(analysis_result, Key.strengths,
                                          JObj(<<>>))]}
               /\ analysed = {<<id, "math">>}
    /\ progress = {}
    /\ paths = <<>>
    /\ response = [view |-> "", sevis_pass_id |-> "", subject |-> "",
                   password |-> "", status |-> 0]
    /\ requests = 0
    /\ inflight = {}
    /\ global_client = 0
    /\ built = 0
    /\ callers = <<>>
    /\ study_plan = NoValue
    /\ cleaned = NoValue
    /\ NoCalls

NextRace ==
    \/ populate_mock_data
    \/ \E w \in Workers, id \in SevisPassIds \cup {NoField},
          subject \in Subjects, syllabus_reply \in StudyPlanReplies,
          week_plan_reply \in StudyPlanReplies :
           StudyPlanLookup(w, id, subject, syllabus_reply, week_plan_reply)
    \/ \E w \in Workers : StudyPlanStore(w)

SpecRace == InitRace /\ [][NextRace]_vars


(***************************************************************************)
(* get_openai_client (lines 12-45), called by the threads of the server    *)
(* with a valid API key in the settings.  The test of the global, the      *)
(* construction with its assignment, and the return are steps of their     *)
(* own: a thread switch can fall between any two of them.                  *)
(***************************************************************************)
\* the calls a thread makes
MaxClientCalls == 2

\* the threads that call get_openai_client
ClientThreads == {"t1", "t2", "t3"}

get_openai_client(t) ==
    /\ \/ \* the call: a thread that is outside the function enters it
          /\ callers[t].pc = "idle"
          /\ callers[t].calls < MaxClientCalls
          /\ callers' = [callers EXCEPT ![t].pc = "test",
                                        ![t].calls = @ + 1]
          /\ UNCHANGED <<global_client, built>>
       \/ \* line 18: if _client is None and settings.OPENAI_API_KEY
          /\ callers[t].pc = "test"
          /\ callers' = [callers EXCEPT
                            ![t].pc = IF global_client = 0 THEN "construct"
                                      ELSE "return"]
          /\ UNCHANGED <<global_client, built>>
       \/ \* lines 19-38: _client = OpenAI(api_key=..., http_client=...)
          /\ callers[t].pc = "construct"
          /\ built' = built + 1
          /\ global_client' = built + 1
          /\ callers' = [callers EXCEPT ![t].pc = "return"]
       \/ \* line 45: return _client
          /\ callers[t].pc = "return"
          /\ callers' = [callers EXCEPT ![t].pc = "idle",
                                        ![t].got = global_client]
          /\ UNCHANGED <<global_client, built>>
    /\ UNCHANGED <<users, diagnostics, progress, profiles, paths, response,
                   requests, analysed, configured, inflight, study_plan,
                   cleaned>>
    /\ UNCHANGED parser

\* the module has just been imported: _client = None (line 13)
InitClient ==
    /\ NoCalls
    /\ users = <<>>
    /\ diagnostics = {}
    /\ progress = {}
    /\ profiles = {}
    /\ paths = <<>>
    /\ response = [view |-> "", sevis_pass_id |-> "", subject |-> "",
                   password |-> "", status |-> 0]
    /\ requests = 0
    /\ analysed = {}
    /\ configured = TRUE
    /\ inflight = {}
    /\ global_client = 0
    /\ built = 0
    /\ callers = [t \in ClientThreads |-> [pc |-> "idle", calls |-> 0, got |-> 0]]
    /\ study_plan = NoValue
    /\ cleaned = NoValue

NextClient == \E t \in ClientThreads : get_openai_client(t)

SpecClient == InitClient /\ [][NextClient]_vars


(***************************************************************************)
(* _validate_and_clean_video_url (lines 48-90).  A value that is no string *)
(* or is empty gives None (NoValue); the patterns are searched as          *)
(* re.search does, leftmost match first.                                   *)
(***************************************************************************)
validate_and_clean_video_url(url) ==
    IF url.t # "str" \/ url.s = <<>> THEN NoValue
    ELSE
    LET s == Strip(url.s)
        n == Len(s)
        \* [a-zA-Z0-9_-]
        IdChars ==
           {"a", "b", "c", "d", "e", "f", "g", "h", "i", "j", "k", "l", "m",
            "n", "o", "p", "q", "r", "s", "t", "u", "v", "w", "x", "y", "z",
            "A", "B", "C", "D", "E", "F", "G", "H", "I", "J", "K", "L", "M",
            "N", "O", "P", "Q", "R", "S", "T", "U", "V", "W", "X", "Y", "Z",
            "0", "1", "2", "3", "4", "5", "6", "7", "8", "9", "_", "-"}
        \* str.lower() of the letters the patterns name
        lower(c) ==
            CASE c = "H" -> "h" [] c = "T" -> "t" [] c = "P" -> "p"
              [] c = "S" -> "s" [] c = "M" -> "m" [] c = "W" -> "w"
              [] c = "E" -> "e" [] c = "B" -> "b" [] c = "O" -> "o"
              [] c = "G" -> "g" [] c = "V" -> "v" [] OTHER -> c
        At(i, w) == i + Len(w) - 1 <= n /\ SubSeq(s, i, i + Len(w) - 1) = w
        AtLower(i, w) ==
            /\ i + Len(w) - 1 <= n
            /\ \A k \in 1..Len(w) : lower(s[i + k - 1]) = w[k]
        Has(w) == \E i \in 1..n : At(i, w)
        \* ([a-zA-Z0-9_-]{11}) at i
        IdAt(i) == i + 10 <= n /\ \A k \in i..(i + 10) : s[k] \in IdChars
        youtube_com == <<"y", "o", "u", "t", "u", "b", "e", ".", "c", "o", "m">>
        youtu_be == <<"y", "o", "u", "t", "u", ".", "b", "e">>
        vimeo_com == <<"v", "i", "m", "e", "o", ".", "c", "o", "m">>
        watch == <<"/", "w", "a", "t", "c", "h", "?", "v", "=">>
        \* lines 61-65: the alternatives of each pattern, in order
        patterns ==
            <<<<youtube_com \o watch, youtu_be \o <<"/">>,
                youtube_com \o <<"/", "e", "m", "b", "e", "d", "/">>>>,
              <<youtube_com \o <<"/", "v", "/">>>>,
              <<<<"m", ".">> \o youtube_com \o watch>>>>
        Matches(p, i) ==
            {a \in 1..Len(patterns[p]) :
                At(i, patterns[p][a]) /\ IdAt(i + Len(patterns[p][a]))}
        Hits(p) == {i \in 1..n : Matches(p, i) # {}}
        \* match.group(1) of re.search(patterns[p], url)
        video_id(p) ==
            LET i == CHOOSE i \in Hits(p) : \A j \in Hits(p) : i <= j
                a == CHOOSE a \in Matches(p, i) : \A b \in Matches(p, i) : a <= b
                from == i + Len(patterns[p][a])
            IN  SubSeq(s, from, from + 10)
        Found == {p \in 1..Len(patterns) : Hits(p) # {}}
        \* vimeo\.com/(\d+)
        VimeoHits ==
            {i \in 1..n : At(i, vimeo_com \o <<"/">>)
                          /\ i + 10 <= n /\ s[i + 10] \in Digits}
        vimeo_id ==
            LET i == CHOOSE i \in VimeoHits : \A j \in VimeoHits : i <= j
                last == CHOOSE j \in (i + 10)..n :
                            /\ \A k \in (i + 10)..j : s[k] \in Digits
                            /\ j = n \/ s[j + 1] \notin Digits
            IN  SubSeq(s, i + 10, last)
        \* https?://.*\.(mp4|webm|ogg|mov)(\?.*)?$ with re.IGNORECASE,
        \* anchored at the start; "." matches anything but a newline
        scheme_end ==
            IF AtLower(1, <<"h", "t", "t", "p", ":", "/", "/">>) THEN 7
            ELSE IF AtLower(1, <<"h", "t", "t", "p", "s", ":", "/", "/">>)
            THEN 8 ELSE 0
        extensions ==
            {<<".", "m", "p", "4">>, <<".", "w", "e", "b", "m">>,
             <<".", "o", "g", "g">>, <<".", "m", "o", "v">>}
        NoNewline(a, b) == \A k \in a..b : s[k] # "\n"
        IsVideoFile ==
            /\ scheme_end > 0
            /\ \E j \in (scheme_end + 1)..n, e \in extensions :
                   /\ NoNewline(scheme_end + 1, j - 1)
                   /\ AtLower(j, e)
                   /\ \/ j + Len(e) = n + 1
                      \/ /\ j + Len(e) <= n
                         /\ s[j + Len(e)] = "?"
                         /\ NoNewline(j + Len(e) + 1, n)
    IN  IF Has(youtube_com) \/ Has(youtu_be)
        THEN IF Found # {}
             THEN JStr(<<"h", "t", "t", "p", "s", ":", "/", "/", "w", "w",
                         "w", ".">> \o youtube_com \o watch
                       \o video_id(CHOOSE p \in Found : \A q \in Found : p <= q))
             ELSE NoValue
        ELSE IF Has(vimeo_com)
        THEN IF VimeoHits # {}
             THEN JStr(<<"h", "t", "t", "p", "s", ":", "/", "/">>
                       \o vimeo_com \o <<"/">> \o vimeo_id)
             ELSE NoValue
        ELSE IF IsVideoFile THEN JStr(s)
        ELSE NoValue

(***************************************************************************)
(* _clean_video_urls_in_study_plan (lines 93-130).                         *)
(***************************************************************************)
RECURSIVE clean_video_urls_in_study_plan(_)
clean_video_urls_in_study_plan(study_plan_arg) ==
    LET m == study_plan_arg.members
        \* lines 101-106: a string under video_url is kept only cleaned
        IsUrl(key) == key = Key.video_url /\ m[key].t = "str"
        kept ==
            {key \in DOMAIN m :
                IsUrl(key) => validate_and_clean_video_url(m[key]) # NoValue}
        \* lines 110-121: one entry of a videos list
        cleaned_video(video) ==
            IF IsDict(video) /\ Key.video_url \in DOMAIN video.members
            THEN \* video.copy(), then the url is replaced or popped
                 LET cleaned_url ==
                         validate_and_clean_video_url(
                             Get(video, Key.video_url, JStr(<<>>)))
                 IN  IF cleaned_url # NoValue
                     THEN JObj(PutMember(video.members, Key.video_url,
                                         cleaned_url))
                     ELSE JObj([k \in (DOMAIN video.members)
                                        \ {Key.video_url} |->
                                   video.members[k]])
            ELSE IF IsDict(video)
            THEN clean_video_urls_in_study_plan(video)
            ELSE video
        cleaned_value(key) ==
            IF IsUrl(key) THEN validate_and_clean_video_url(m[key])
            ELSE IF key = Key.videos /\ m[key].t = "arr"
            THEN JArr([i \in 1..Len(m[key].items) |->
                          cleaned_video(m[key].items[i])])
            ELSE IF m[key].t \in {"obj", "arr"}
            THEN clean_video_urls_in_study_plan(m[key])
            ELSE m[key]
    IN  IF IsDict(study_plan_arg)
        THEN JObj([key \in kept |-> cleaned_value(key)])
        ELSE IF study_plan_arg.t = "arr"
        THEN JArr([i \in 1..Len(study_plan_arg.items) |->
                      clean_video_urls_in_study_plan(study_plan_arg.items[i])])
        ELSE study_plan_arg

\* the study plans handed to _clean_video_urls_in_study_plan: a url (or a
\* number in its place) at the top, in a videos list, below a week, in a
\* list of modules, below an entry of a videos list, in a list inside a
\* videos list, and under a videos key that holds no list
StudyPlans ==
    LET Obj1(k, v) == JObj(PutMember(<<>>, k, v))
        Obj2(k1, v1, k2, v2) == JObj(PutMember(PutMember(<<>>, k1, v1), k2, v2))
        a_title == JStr(<<"t">>)
        clean_url ==
            JStr(<<"h", "t", "t", "p", "s", ":", "/", "/", "v", "i", "m",
                   "e", "o", ".", "c", "o", "m", "/", "1">>)
        VideoUrls ==
            {JNum(<<"5">>),
             JStr(
                 <<"h", "t", "t", "p", "s", ":", "/", "/", "y", "o", "u",
                   "t", "u", ".", "b", "e", "/", "a", "b", "c", "d", "e",
                   "f", "g", "h", "i", "j", "k", "?", "t", "=", "5">>),
             JStr(
                 <<"h", "t", "t", "p", "s", ":", "/", "/", "w", "w", "w",
                   ".", "y", "o", "u", "t", "u", "b", "e", ".", "c", "o",
                   "m", "/", "w", "a", "t", "c", "h", "?", "v", "=", "a",
                   "b", "c", "d", "e", "f", "g", "h", "i", "j", "k">>),
             JStr(
                 <<"y", "o", "u", "t", "u", "b", "e", ".", "c", "o", "m",
                   "/", "e", "m", "b", "e", "d", "/", "a", "b", "c">>),
             JStr(
                 <<"h", "t", "t", "p", "s", ":", "/", "/", "w", "w", "w",
                   ".", "y", "o", "u", "t", "u", "b", "e", ".", "c", "o",
                   "m", "/", "v", "/", "a", "-", "c", "_", "e", "f", "g",
                   "h", "i", "j", "k">>),
             JStr(
                 <<" ", "h", "t", "t", "p", "s", ":", "/", "/", "v", "i",
                   "m", "e", "o", ".", "c", "o", "m", "/", "1", "2", "3",
                   "/", "x", "\n">>),
             JStr(
                 <<"v", "i", "m", "e", "o", ".", "c", "o", "m", "/", "x">>),
             JStr(
                 <<"H", "T", "T", "P", ":", "/", "/", "x", ".", "y", "/",
                   "a", ".", "M", "P", "4", "?", "q">>),
             JStr(
                 <<" ", "h", "t", "t", "p", "s", ":", "/", "/", "x", ".",
                   "y", "/", "a", ".", "m", "p", "4", "\n">>),
             JStr(
                 <<"h", "t", "t", "p", "s", ":", "/", "/", "x", ".", "y",
                   "/", "a", ".", "m", "p", "4", "#", "t">>),
             JStr(
                 <<"n", "o", "t", " ", "a", " ", "u", "r", "l">>),
             JStr(
                 <<>>)}
    IN  UNION {
          {Obj1(Key.video_url, u),
           Obj1(Key.videos,
                JArr(<<Obj2(Key.video_url, u, Key.title, a_title)>>)),
           Obj1(Key.week_1,
                Obj1(Key.videos,
                     JArr(<<Obj1(Key.title, a_title),
                            Obj1(Key.video_url, u)>>))),
           Obj1(Key.modules, JArr(<<Obj1(Key.video_url, u)>>)),
           Obj1(Key.videos,
                JArr(<<Obj2(Key.video_url, clean_url,
                            Key.related, Obj1(Key.video_url, u))>>)),
           Obj1(Key.videos, JArr(<<JArr(<<Obj1(Key.video_url, u)>>)>>)),
           Obj1(Key.videos, Obj1(Key.video_url, u))} : u \in VideoUrls}

\* a study plan has been assembled (line 737) and not cleaned yet
InitClean ==
    /\ NoCalls
    /\ users = <<>>
    /\ diagnostics = {}
    /\ progress = {}
    /\ profiles = {}
    /\ paths = <<>>
    /\ response = [view |-> "", sevis_pass_id |-> "", subject |-> "",
                   password |-> "", status |-> 0]
    /\ requests = 0
    /\ analysed = {}
    /\ configured = TRUE
    /\ inflight = {}
    /\ global_client = 0
    /\ built = 0
    /\ callers = <<>>
    /\ study_plan \in StudyPlans
    /\ cleaned = NoValue

\* line 744: result = _clean_video_urls_in_study_plan(result)
NextClean ==
    /\ cleaned = NoValue
    /\ cleaned' = clean_video_urls_in_study_plan(study_plan)
    /\ UNCHANGED <<users, diagnostics, progress, profiles, paths, response,
                   requests, analysed, configured, inflight, global_client,
                   built, callers, study_plan>>
    /\ UNCHANGED parser

SpecClean == InitClean /\ [][NextClean]_vars


(***************************************************************************)
(* Claims about a single call, checked under Spec.                         *)
(***************************************************************************)
\* every attempt of invocation t so far failed
AllFailed(t) == \A i \in 1..Len(attempts[t]) : ~attempts[t][i].ok

\* the place of a stage in the order of the stages
StageRank(stage) ==
    CASE stage = "idle" -> 0
      [] stage = "stage1" -> 1
      [] stage = "stage2" -> 2
      [] stage = "stage3a" -> 3
      [] stage = "stage3b" -> 4
      [] stage = "stage4" -> 5
      [] stage = "fallback" -> 6
      [] stage = "done" -> 7

\* C1: for every input text and context label the call returns a value: no
\* exception of a decode attempt or repair step leaves the function.
C1_NoExceptionEscapes == \A t \in Threads : result[t].kind # "raise"

\* C2: a text that is already valid JSON is decoded unmodified: the result
\* is what standard decoding of the text yields, the only attempt made is
\* the one on the text itself, and no stage after the first is entered (the
\* working text of the normalization is never written).
C2_DirectSuccess ==
    \A t \in Threads :
        loads(json_text[t]).ok =>
            /\ pc[t] \in {"stage1", "done"}
            /\ fixed_text[frame(t)] = <<>>
            /\ pc[t] = "done" =>
                   /\ result[t] = Return(loads(json_text[t]).val)
                   /\ Len(attempts[t]) = 1
                   /\ attempts[t][1].stage = "stage1"
                   /\ attempts[t][1].text = json_text[t]

\* a valid text that the normalization would have changed has been returned
C2_Witness ==
    \E t \in Threads :
        /\ pc[t] = "done"
        /\ loads(json_text[t]).ok
        /\ Normalize(json_text[t]) # json_text[t]
        /\ result[t] = Return(loads(json_text[t]).val)

\* C3: the attempts are made in the order stage 1, stage 2, stage 3a,
\* stage 3b, stage 4, with the fallback last; the call returns the decoded
\* value of the first attempt that succeeds, and no attempt follows a
\* successful one.
C3_StagedEarlyReturn ==
    \A t \in Threads :
        LET a == attempts[t]
            n == Len(a)
        IN  /\ \A i \in 1..(n - 1) :
                   /\ StageRank(a[i].stage) < StageRank(a[i + 1].stage)
                   /\ ~a[i].ok
            /\ n >= 1 => a[1].stage = "stage1"
            /\ n >= 2 => a[2].stage = "stage2"
            /\ \A i \in 1..n : StageRank(a[i].stage) < StageRank(pc[t])
            /\ (n >= 1 /\ a[n].ok) =>
                   pc[t] = "done" /\ result[t] = Return(a[n].val)
            /\ pc[t] = "fallback" => AllFailed(t)

\* a call returned the value stage 4 decoded, after stages 1, 2, 3a and 3b
\* had each made an attempt and failed
C3_Witness ==
    \E t \in Threads :
        /\ pc[t] = "done"
        /\ Len(attempts[t]) = 5
        /\ attempts[t][5].stage = "stage4"
        /\ attempts[t][5].ok
        /\ result[t] = Return(attempts[t][5].val)

\* C4: the fallback shape is returned exactly when every decode attempt of
\* the call failed; otherwise the result is the value a successful decode
\* of one stage's candidate text produced.
C4_FallbackIffAllFailed ==
    \A t \in Threads :
        pc[t] = "done" =>
            /\ AllFailed(t) <=> result[t] = Return(Fallback(context[t]))
            /\ ~AllFailed(t) =>
                   \E i \in 1..Len(attempts[t]) :
                       /\ loads(attempts[t][i].text).ok
                       /\ result[t] = Return(loads(attempts[t][i].text).val)

\* the marker the title of the syllabus fallback ends with
ParseErrorMarker ==
    <<"(", "P", "a", "r", "s", "e", " ", "E", "r", "r", "o", "r", ")">>

\* C5: when no stage yields valid JSON and the context is "syllabus", the
\* result is a mapping of exactly a title holding the parse-error marker,
\* an overview and an empty list of modules.
C5_SyllabusFallback ==
    \A t \in Threads :
        (pc[t] = "done" /\ AllFailed(t) /\ context[t] = Syllabus) =>
            /\ result[t].kind = "return"
            /\ result[t].val.t = "obj"
            /\ DOMAIN result[t].val.members =
                   {<<"t", "i", "t", "l", "e">>,
                    <<"o", "v", "e", "r", "v", "i", "e", "w">>,
                    <<"m", "o", "d", "u", "l", "e", "s">>}
            /\ LET title == result[t].val.members[<<"t", "i", "t", "l", "e">>]
               IN  /\ title.t = "str"
                   /\ Len(title.s) >= Len(ParseErrorMarker)
                   /\ SubSeq(title.s, Len(title.s) - Len(ParseErrorMarker) + 1,
                             Len(title.s)) = ParseErrorMarker
            /\ result[t].val.members[<<"o", "v", "e", "r", "v", "i", "e", "w">>].t
                   = "str"
            /\ result[t].val.members[<<"m", "o", "d", "u", "l", "e", "s">>]
                   = JArr(<<>>)

\* C6: when no stage yields valid JSON and the context is any label other
\* than "syllabus", the result is exactly the mapping of an empty week_plan
\* and an empty daily_tasks.
C6_DefaultFallback ==
    \A t \in Threads :
        (pc[t] = "done" /\ AllFailed(t) /\ context[t] # Syllabus) =>
            result[t] = Return(JObj(
                (<<"w", "e", "e", "k", "_", "p", "l", "a", "n">> :> JObj(<<>>))
                @@ (<<"d", "a", "i", "l", "y", "_", "t", "a", "s", "k", "s">>
                        :> JObj(<<>>))))

\* C9: a call makes at most five decode attempts, one for each of stage 1,
\* stage 2, stage 3a, stage 3b and stage 4; every step takes the call to a
\* later stage, so no attempt is repeated, no stage is entered again and
\* the call ends.
C9_FiveAttemptsNoRetry ==
    [][\A t \in Threads :
           /\ pc'[t] # pc[t] => StageRank(pc'[t]) > StageRank(pc[t])
           /\ attempts'[t] # attempts[t] =>
                  /\ pc'[t] # pc[t]
                  /\ Len(attempts'[t]) = Len(attempts[t]) + 1
                  /\ attempts'[t][Len(attempts'[t])].stage = pc[t]
           /\ Len(attempts'[t]) <= 5]_vars

\* a call has ended after all five attempts were made and failed
C9_Witness ==
    \E t \in Threads :
        /\ pc[t] = "done"
        /\ Len(attempts[t]) = 5
        /\ AllFailed(t)

\* C7: the result of a call depends on its text and its context label
\* alone: any two calls that were given the same text and the same label,
\* by whichever thread and after whatever other calls, ended the same way.
C7_Deterministic ==
    \A i, j \in 1..Len(returned) :
        (returned[i].text = returned[j].text
             /\ returned[i].context = returned[j].context) =>
            returned[i].result = returned[j].result

\* two calls with the same text and label have ended with the fallback, a
\* call with another label having ended between them
C7_Witness ==
    \E i, j, k \in 1..Len(returned) :
        /\ i < k /\ k < j
        /\ returned[i].text = returned[j].text
        /\ returned[i].context = returned[j].context
        /\ returned[k].context # returned[i].context
        /\ returned[i].result = Return(Fallback(returned[i].context))
        /\ returned[j].result = returned[i].result

\* C8: invocations of different threads do not interfere: however the
\* steps of the threads interleave, an invocation that has ended has ended
\* the way the same call ends when it runs alone.
C8_NoInterference ==
    \A t \in Threads :
        pc[t] = "done" => result[t] = RunAlone(json_text[t], context[t])

\* a call that went through every stage has just ended as it ends alone,
\* while the invocation of another thread, with another text, is past its
\* own stage 2
C8_Witness ==
    \E t, u \in Threads :
        /\ t # u
        /\ pc[t] = "done"
        /\ Len(attempts[t]) = 5
        /\ pc[u] \in {"stage3a", "stage3b", "stage4", "fallback"}
        /\ json_text[u] # json_text[t]
        /\ returned # <<>>
        /\ LET r == returned[Len(returned)]
           IN  /\ r.overlapped
               /\ r.text = json_text[t]
               /\ r.result = result[t]
               /\ r.result = RunAlone(r.text, r.context)

(***************************************************************************)
(* C10.  The double-quoted form of a text: a walk over the text that       *)
(* follows its strings.  A double-quoted string is copied; a single-quoted *)
(* token is rewritten with double quotes when it is an object key made of  *)
(* word characters (a colon follows it: at once when adjacent is TRUE,     *)
(* after optional whitespace otherwise) or a string value that follows a   *)
(* colon.  Each character comes with its origin: "o" outside any string,   *)
(* "d" inside a string the text wrote with double quotes, "s" inside one   *)
(* it wrote with single quotes.                                            *)
(***************************************************************************)
Marked(chars, origin) == [k \in 1..Len(chars) |-> <<chars[k], origin>>]

\* the index of the quote that closes a double-quoted string, 0 if none
RECURSIVE DoubleQuoteEnd(_, _)
DoubleQuoteEnd(s, j) ==
    IF j > Len(s) THEN 0
    ELSE IF s[j] = "\\" THEN DoubleQuoteEnd(s, j + 2)
    ELSE IF s[j] = "\"" THEN j
    ELSE DoubleQuoteEnd(s, j + 1)

RECURSIVE QuoteWalk(_, _, _, _)
QuoteWalk(s, i, prev, adjacent) ==
    IF i > Len(s) THEN <<>>
    ELSE IF s[i] = "\"" THEN
        LET e == DoubleQuoteEnd(s, i + 1)
        IN  IF e = 0
            THEN <<<<"\"", "o">>>> \o Marked(SubSeq(s, i + 1, Len(s)), "d")
            ELSE <<<<"\"", "o">>>> \o Marked(SubSeq(s, i + 1, e - 1), "d")
                     \o <<<<"\"", "o">>>> \o QuoteWalk(s, e + 1, "\"", adjacent)
    ELSE IF s[i] = "'" THEN
        LET c == FindFrom(s, {"'"}, i + 1)
            content == SubSeq(s, i + 1, c - 1)
            after == IF adjacent THEN c + 1 ELSE SpaceEnd(s, c + 1)
            isKey == /\ content # <<>>
                     /\ \A k \in 1..Len(content) : content[k] \in WordChars
                     /\ after <= Len(s) /\ s[after] = ":"
            isValue == prev = ":"
        IN  IF c # 0 /\ (isKey \/ isValue)
            THEN <<<<"\"", "o">>>> \o Marked(content, "s")
                     \o <<<<"\"", "o">>>> \o QuoteWalk(s, c + 1, "\"", adjacent)
            ELSE <<<<"'", "o">>>> \o QuoteWalk(s, i + 1, "'", adjacent)
    ELSE <<<<s[i], "o">>>>
             \o QuoteWalk(s, i + 1, IF s[i] \in ReSpace THEN prev ELSE s[i],
                          adjacent)

\* the text of a walk
WalkText(w) == [k \in 1..Len(w) |-> w[k][1]]

\* the text with its single-quoted keys and values written with double quotes
DoubleQuotedForm(text) == WalkText(QuoteWalk(text, 1, "", FALSE))

\* the same, a key being rewritten only when its colon follows it at once
AdjacentDoubleQuotedForm(text) == WalkText(QuoteWalk(text, 1, "", TRUE))

\* no string of the walk holds a comma followed by optional whitespace and
\* a closing brace or bracket, no string that the text wrote with double
\* quotes holds a colon, and the text holds no code fence
PlainStrings(text) ==
    LET w == QuoteWalk(text, 1, "", TRUE)
        d == WalkText(w)
    IN  /\ \A k \in 1..Len(w) :
               /\ (w[k][2] # "o" /\ d[k] = ",") =>
                      ~(SpaceEnd(d, k + 1) <= Len(d)
                        /\ d[SpaceEnd(d, k + 1)] \in {"}", "]"})
               /\ w[k][2] = "d" => d[k] # ":"
        /\ \A k \in 1..Len(text) :
               ~(k + 2 <= Len(text) /\ text[k] = Backtick
                 /\ text[k + 1] = Backtick /\ text[k + 2] = Backtick)

StringMask(d) == QuoteWalk(d, 1, "", TRUE)

\* text without its characters k..j
Without(text, k, j) == SubSeq(text, 1, k - 1) \o SubSeq(text, j + 1, Len(text))

TrailingCommaOrigins(text) ==
    {Without(text, k, SkipWS(text, k + 1) - 1) :
         k \in {k \in 1..Len(text) :
                   /\ text[k] = ","
                   /\ SkipWS(text, k + 1) <= Len(text)
                   /\ text[SkipWS(text, k + 1)] \in {"}", "]"}
                   /\ LET d == Without(text, k, SkipWS(text, k + 1) - 1)
                      IN  loads(d).ok /\ StringMask(d)[k][2] = "o"}}

\* no string of document d holds a comma followed by optional whitespace
\* and a closing brace or bracket, a single quote followed by a colon, or
\* a colon followed by optional whitespace and a single quote, and d holds
\* no code fence
PlainDocument(d) ==
    LET w == StringMask(d)
    IN  /\ \A k \in 1..Len(d) :
               w[k][2] # "o" =>
                   /\ d[k] = "," =>
                          ~(SpaceEnd(d, k + 1) <= Len(d)
                            /\ d[SpaceEnd(d, k + 1)] \in {"}", "]"})
                   /\ d[k] = "'" => ~(k + 1 <= Len(d) /\ d[k + 1] = ":")
                   /\ d[k] = ":" =>
                          ~(SpaceEnd(d, k + 1) <= Len(d)
                            /\ d[SpaceEnd(d, k + 1)] = "'")
        /\ \A k \in 1..Len(d) :
               ~(k + 2 <= Len(d) /\ d[k] = Backtick
                 /\ d[k + 1] = Backtick /\ d[k + 2] = Backtick)

IsFence(text, i) ==
    /\ i >= 1 /\ i + 2 <= Len(text)
    /\ \A k \in i..(i + 2) : text[k] = Backtick

\* the indices at which a fenced document may start after the fence at i
AfterOpening(text, i) ==
    {i + 3} \cup
    (IF i + 6 <= Len(text)
        /\ SubSeq(text, i + 3, i + 6) = <<"j", "s", "o", "n">>
     THEN {i + 7} ELSE {})

FencedOrigins(text) ==
    {d \in {SubSeq(text, a, j - 1) :
                <<a, j>> \in {x \in (1..(Len(text) + 1)) \X (1..Len(text)) :
                                 /\ IsFence(text, x[2])
                                 /\ x[1] <= x[2]
                                 /\ \E i \in 1..Len(text) :
                                        /\ IsFence(text, i)
                                        /\ x[1] \in AfterOpening(text, i)}} :
         loads(d).ok}

\* C12: a text made of prose, an opening code fence (optionally labelled
\* json), a valid JSON document, a closing code fence and more prose yields
\* the structure the fenced document decodes to.
C12_FencedDocument ==
    \A t \in Threads :
        pc[t] = "done" =>
            \A d \in FencedOrigins(json_text[t]) :
                result[t] = Return(loads(d).val)

(***************************************************************************)
(* C13.  A text made of prose without brace or bracket, a valid JSON       *)
(* object or array, and more such prose: the document runs from the first  *)
(* opening to the last closing character of the text.                      *)
(***************************************************************************)
FirstOpener(text) == FindFrom(text, {"{", "["}, 1)

LastCloser(text) ==
    IF \E k \in 1..Len(text) : text[k] \in {"}", "]"}
    THEN CHOOSE k \in 1..Len(text) :
             /\ text[k] \in {"}", "]"}
             /\ \A j \in (k + 1)..Len(text) : text[j] \notin {"}", "]"}
    ELSE 0

EmbeddedDocument(text) == SubSeq(text, FirstOpener(text), LastCloser(text))

IsEmbedded(text) ==
    /\ FirstOpener(text) # 0
    /\ LastCloser(text) > FirstOpener(text)
    /\ \A k \in 1..(FirstOpener(text) - 1) : text[k] \notin {"}", "]"}
    /\ \A k \in (LastCloser(text) + 1)..Len(text) : text[k] \notin {"{", "["}
    /\ loads(EmbeddedDocument(text)).ok

PlainEmbedding(text) ==
    /\ ~(loads(text).ok /\ loads(text).val.t = "str")
    /\ \A k \in 1..Len(text) : ~IsFence(text, k)
    /\ \A k \in 1..(FirstOpener(text) - 1) : text[k] # "'"
    /\ PlainDocument(EmbeddedDocument(text))

AttemptsAt(t, stage) ==
    {i \in 1..Len(attempts[t]) : attempts[t][i].stage = stage}

\* C16: the candidate texts of stage 3b and of stage 4 are computed from the
\* stage-2 normalized text; the double quote a failed stage 3a attempt
\* inserted does not show in them.
C16_CandidatesFromNormalizedText ==
    \A t \in Threads :
        LET ft2 == Normalize(json_text[t])
        IN  /\ \A i \in AttemptsAt(t, "stage3b") :
                   attempts[t][i].text = Stage3bText(ft2)
            /\ \A i \in AttemptsAt(t, "stage4") :
                   attempts[t][i].text = Stage4Text(ft2)

(***************************************************************************)
(* C17.  The code block between the first and the last fence.              *)
(***************************************************************************)
\* the working text when Fix 3 looks for a fence
BeforeFence(text) == FixTrailingCommas(FixValues(FixKeys(text, 1), 1), 1)

\* the indices at which a fence marker starts
FenceMarkers(s) == {i \in 1..Len(s) : IsFence(s, i)}

\* the last and the first marker of the text
LastMarker(s) ==
    CHOOSE i \in FenceMarkers(s) : \A j \in FenceMarkers(s) : j <= i

FirstMarker(s) ==
    CHOOSE i \in FenceMarkers(s) : \A j \in FenceMarkers(s) : i <= j

\* two or more markers that do not overlap
TwoFences(s) ==
    FenceMarkers(s) # {} /\ LastMarker(s) >= FirstMarker(s) + 3

\* the content between the first marker, with its optional label, and the
\* last marker, the white space around it dropped
BetweenFirstAndLast(s) ==
    LET p == FirstMarker(s)
        a == IF p + 6 <= Len(s)
                  /\ SubSeq(s, p + 3, p + 6) = <<"j", "s", "o", "n">>
                  /\ LastMarker(s) >= p + 7
             THEN p + 7 ELSE p + 3
    IN  Strip(SubSeq(s, a, LastMarker(s) - 1))

\* C17: when the working text holds two or more fence markers, stage 2d
\* replaces it with the content between the first marker (with its optional
\* json label) and the last marker of the text.
C17_FirstToLastFence ==
    \A t \in Threads :
        \A i \in AttemptsAt(t, "stage2") :
            TwoFences(BeforeFence(json_text[t])) =>
                attempts[t][i].text
                    = BetweenFirstAndLast(BeforeFence(json_text[t]))

(***************************************************************************)
(* C18.  Which stage-2 errors open the string repair.                      *)
(***************************************************************************)
\* the stage-2 decode of invocation t has failed
Stage2Failed(t) ==
    \E i \in AttemptsAt(t, "stage2") : ~attempts[t][i].ok

\* the error of the stage-2 decode of invocation t
Stage2Error(t) == loads(Normalize(json_text[t]))

\* C18: no stage-3 decode attempt (quote insertion or truncation) is made
\* unless the error of the stage-2 decode reports an unterminated string;
\* after any other stage-2 error control passes directly to stage 4; and
\* when stage 3 is entered it is entered before stage 4.
C18_RepairOnlyIfUnterminated ==
    \A t \in Threads :
        /\ (AttemptsAt(t, "stage3a") \cup AttemptsAt(t, "stage3b") # {}) =>
               Stage2Failed(t) /\ IsUnterminated(Stage2Error(t))
        /\ (Stage2Failed(t) /\ ~IsUnterminated(Stage2Error(t))) =>
               /\ pc[t] \in {"stage4", "fallback", "done"}
               /\ result[t].kind # "raise"
               /\ \A i \in 3..Len(attempts[t]) :
                      attempts[t][i].stage = "stage4"
        /\ \A i \in AttemptsAt(t, "stage3a") \cup AttemptsAt(t, "stage3b") :
               \A j \in AttemptsAt(t, "stage4") : i < j
        /\ pc[t] \in {"stage3a", "stage3b"} => AttemptsAt(t, "stage4") = {}

(***************************************************************************)
(* C19.  The candidate of the quote insertion.                             *)
(***************************************************************************)
\* the index in text of column col of line line
OffsetOf(text, line, col) ==
    CHOOSE k \in col..(Len(text) + 1) :
        /\ Count(SubSeq(text, 1, k - 1), "\n") = line - 1
        /\ \A j \in (k - col + 1)..(k - 1) : text[j] # "\n"
        /\ k = col \/ text[k - col] = "\n"

\* text with one double quote put at index k, the rest as it was
WithQuoteAt(text, k) ==
    SubSeq(text, 1, k - 1) \o <<"\"">> \o SubSeq(text, k, Len(text))

\* the stage-2 error of invocation t is an unterminated string on a line
\* that does not end in a quote
OpenStringLine(t) ==
    LET ft == Normalize(json_text[t])
        e == Stage2Error(t)
    IN  /\ Stage2Failed(t)
        /\ IsUnterminated(e)
        /\ ~EndsWithQuote(ProblemLine(ft, lineno(ft, e.pos)))

\* C19: when the stage-2 error is an unterminated string reported at line L,
\* column C, and line L does not already end in a closing quote, stage 3a
\* decodes a candidate that is the normalized text with exactly one double
\* quote inserted at column C of line L, every other character unchanged.
C19_QuoteInsertedAtColumn ==
    \A t \in Threads :
        (OpenStringLine(t) /\ StageRank(pc[t]) > StageRank("stage3a")) =>
            LET ft == Normalize(json_text[t])
                e == Stage2Error(t)
                k == OffsetOf(ft, lineno(ft, e.pos), colno(ft, e.pos))
            IN  /\ Cardinality(AttemptsAt(t, "stage3a")) = 1
                /\ \A i \in AttemptsAt(t, "stage3a") :
                       /\ i = 3
                       /\ attempts[t][i].text = WithQuoteAt(ft, k)
                       /\ Len(attempts[t][i].text) = Len(ft) + 1

\* stage 3a has decoded its candidate for an error past the first column of
\* a line that is not the first, with text following the reported column
C19_Witness ==
    \E t \in Threads :
        LET ft == Normalize(json_text[t])
            e == Stage2Error(t)
        IN  /\ OpenStringLine(t)
            /\ lineno(ft, e.pos) > 1
            /\ colno(ft, e.pos) > 1
            /\ e.pos < Len(ft)
            /\ AttemptsAt(t, "stage3a") = {3}
            /\ attempts[t][3].text = WithQuoteAt(ft, e.pos)

(***************************************************************************)
(* C20.  The candidate of the truncation.                                  *)
(***************************************************************************)
\* the index of the last double quote of text, 0 if it has none
LastQuote(text) ==
    IF \E k \in 1..Len(text) : text[k] = "\""
    THEN CHOOSE k \in 1..Len(text) :
             /\ text[k] = "\""
             /\ \A j \in (k + 1)..Len(text) : text[j] # "\""
    ELSE 0

\* the index of the nearest closing character at or after index k, 0 if none
NearestCloser(text, k) ==
    IF \E j \in k..Len(text) : text[j] \in {"}", "]"}
    THEN CHOOSE j \in k..Len(text) :
             /\ text[j] \in {"}", "]"}
             /\ \A i \in k..(j - 1) : text[i] \notin {"}", "]"}
    ELSE 0

\* the prefix of text that ends at the nearest closing character at or
\* after the last double quote
PrefixToCloser(text) ==
    SubSeq(text, 1, NearestCloser(text, LastQuote(text)))

\* C20: the candidate of stage 3b, before balancing, is the prefix of the
\* working text that ends at and includes the nearest closing brace or
\* bracket at or after the last double quote of the text; stage 3b makes
\* its decode attempt only if the text has a double quote and such a closing
\* character exists.
C20_TruncationPrefix ==
    \A t \in Threads :
        \A i \in AttemptsAt(t, "stage3b") :
            LET ft == fixed_text[frame(t)]
            IN  /\ LastQuote(ft) # 0
                /\ NearestCloser(ft, LastQuote(ft)) # 0
                /\ attempts[t][i].text = Balanced(PrefixToCloser(ft))

(***************************************************************************)
(* C21.  The closers the truncation appends.                               *)
(***************************************************************************)
\* how many of close are missing in text for its open characters
Missing(text, open, close) ==
    Max(0, Count(text, open) - Count(text, close))

\* C21: stage 3b appends to its candidate exactly max(0, count of { minus
\* count of }) closing braces and then max(0, count of [ minus count of ])
\* closing brackets, so the candidate it decodes never holds more opening
\* than closing characters of either kind.
C21_ClosersAppended ==
    \A t \in Threads :
        \A i \in AttemptsAt(t, "stage3b") :
            LET tr == Truncated(fixed_text[frame(t)])
                text == attempts[t][i].text
            IN  /\ text = tr \o [k \in 1..Missing(tr, "{", "}") |-> "}"]
                             \o [k \in 1..Missing(tr, "[", "]") |-> "]"]
                /\ Count(text, "{") <= Count(text, "}")
                /\ Count(text, "[") <= Count(text, "]")

\* a truncation that lacked a bracket and had a brace too many was decoded
C21_Witness ==
    \E t \in Threads :
        \E i \in AttemptsAt(t, "stage3b") :
            LET tr == Truncated(fixed_text[frame(t)])
            IN  /\ Count(tr, "[") > Count(tr, "]")
                /\ Count(tr, "{") < Count(tr, "}")
                /\ Len(attempts[t][i].text) = Len(tr) + 1

(***************************************************************************)
(* C22.  The slice of stage 4.                                             *)
(***************************************************************************)
\* the index of the earliest opening character of text, 0 if it has none
EarliestOpener(text) ==
    IF \E k \in 1..Len(text) : text[k] \in {"{", "["}
    THEN CHOOSE k \in 1..Len(text) :
             /\ text[k] \in {"{", "["}
             /\ \A j \in 1..(k - 1) : text[j] \notin {"{", "["}
    ELSE 0

\* text has an opening and a closing character, the last closing one after
\* the first opening one
HasSlice(text) ==
    /\ EarliestOpener(text) # 0
    /\ LastCloser(text) # 0
    /\ LastCloser(text) > EarliestOpener(text)

\* C22: stage 4 slices the working text from the earliest { or [ through
\* the latest } or ] inclusive and decodes the slice, only if both an
\* opening and a closing character exist and the closing index is greater
\* than the opening index; otherwise it makes no attempt and the call
\* returns the fallback.
C22_Stage4Slice ==
    [][\A t \in Threads :
           LET ft == fixed_text[frame(t)]
           IN  /\ (pc[t] = "stage4" /\ pc'[t] # "stage4") =>
                      IF HasSlice(ft)
                      THEN /\ Len(attempts'[t]) = Len(attempts[t]) + 1
                           /\ attempts'[t][Len(attempts'[t])].stage = "stage4"
                           /\ attempts'[t][Len(attempts'[t])].text =
                                  SubSeq(ft, EarliestOpener(ft), LastCloser(ft))
                      ELSE /\ attempts'[t] = attempts[t]
                           /\ pc'[t] = "fallback"
               /\ (pc[t] = "fallback" /\ pc'[t] # "fallback") =>
                      /\ pc'[t] = "done"
                      /\ result'[t] = Return(Fallback(context[t]))
      ]_vars

\* a call ended with the fallback after stage 4 had tried a slice that is
\* shorter than the working text and starts after its first character
C22_Witness ==
    \E t \in Threads :
        /\ pc[t] = "done"
        /\ result[t] = Return(Fallback(context[t]))
        /\ \E i \in AttemptsAt(t, "stage4") :
               /\ ~attempts[t][i].ok
               /\ Len(attempts[t][i].text) < Len(fixed_text[frame(t)])
               /\ EarliestOpener(fixed_text[frame(t)]) > 1

(***************************************************************************)
(* C23.  No trailing comma is left.                                        *)
(***************************************************************************)
\* the comma at index k of text is followed only by whitespace and then a
\* closing brace or bracket
IsTrailingComma(text, k) ==
    /\ text[k] = ","
    /\ \E j \in (k + 1)..Len(text) :
           /\ text[j] \in {"}", "]"}
           /\ \A i \in (k + 1)..(j - 1) : text[i] \in ReSpace

\* C23: after stage 2c has run, the working text contains no comma that is
\* followed only by whitespace and then a closing brace or bracket.
C23_NoTrailingCommaLeft ==
    \A t \in Threads :
        AttemptsAt(t, "stage2") # {} =>
            LET text == BeforeFence(json_text[t])
            IN  \A k \in 1..Len(text) : ~IsTrailingComma(text, k)

(***************************************************************************)
(* C24.  The type of the returned value.                                   *)
(***************************************************************************)
\* C24: for every input text and context label, the value the call returns
\* is a mapping (a JSON object).
C24_ReturnsMapping ==
    \A t \in Threads :
        (pc[t] = "done" /\ result[t].kind = "return") =>
            result[t].val.t = "obj"

(***************************************************************************)
(* C25.  The order of the appended closers.                                *)
(***************************************************************************)
\* the runs of closing characters that can be missing at the end of a text
\* whose containers are nested at most three deep
CloserRuns == UNION {[1..n -> {"}", "]"}] : n \in 1..3}

\* all that text lacks to be a JSON document is closing characters at its
\* end
OnlyClosersMissing(text) == \E run \in CloserRuns : loads(text \o run).ok

\* C25: the closing characters stage 3b appends close the structures that
\* are still open in the reverse order of their opening, so a truncated
\* candidate whose only defect is missing closers becomes properly nested
\* and decodes.
C25_ClosersInReverseOrder ==
    \A t \in Threads :
        \A i \in AttemptsAt(t, "stage3b") :
            OnlyClosersMissing(Truncated(fixed_text[frame(t)])) =>
                attempts[t][i].ok

(***************************************************************************)
(* Claims about the endpoints, checked under SpecApi.                      *)
(***************************************************************************)
\* the step answers a request to view
Answers(view) == requests' = requests + 1 /\ response'.view = view

\* C14: a login request whose SevisPass ID matches no existing user, sent
\* without a password field, creates exactly one user with that SevisPass
\* ID and is answered with status 201.
C14_LoginWithoutPassword ==
    [][(/\ Answers("login")
        /\ response'.sevis_pass_id # NoField
        /\ response'.password = NoField
        /\ UserRows(users, response'.sevis_pass_id) = {})
           => /\ response'.status = 201
              /\ Cardinality(UserRows(users', response'.sevis_pass_id)) = 1
      ]_vars

\* C15: for every user and subject, a study-plan generation request is
\* answered 404 and stores nothing in every state where no weakness profile
\* exists for the pair; once a weakness analysis for the pair has
\* succeeded, a later study-plan generation request is answered 200 and
\* leaves a learning path for the pair whose status is active.
C15_StudyPlanNeedsProfile ==
    [][(/\ Answers("study_plan")
        /\ UserRows(users, response'.sevis_pass_id) # {})
           => LET id == response'.sevis_pass_id
                  subject == response'.subject
              IN  /\ ProfileRows(profiles, id, subject) = {} =>
                         /\ response'.status = 404
                         /\ UNCHANGED <<users, diagnostics, progress,
                                        profiles, paths>>
                  /\ <<id, subject>> \in analysed =>
                         /\ response'.status = 200
                         /\ \E i \in PathRows(paths', id, subject) :
                                paths'[i].status = "active"
      ]_vars

\* C26: for a mapping weakness profile and a string subject,
\* generate_study_plan returns a plan on every path (no client configured,
\* successful generation, any exception during generation or parsing) and
\* raises nothing, whatever the model replies.
C26_StudyPlanNeverRaises ==
    [][\A id \in SevisPassIds, subject \in Subjects :
           (/\ Answers("study_plan")
            /\ response'.sevis_pass_id = id
            /\ response'.subject = subject
            /\ UserRows(users, id) # {}
            /\ ProfileRows(profiles, id, subject) # {})
               => \A weakness_profile \in ProfileRows(profiles, id, subject),
                     syllabus_reply \in StudyPlanReplies,
                     week_plan_reply \in StudyPlanReplies :
                      ~generate_study_plan(configured,
                           weakness_profile.weaknesses,
                           weakness_profile.strengths,
                           <<id, subject>> \in progress,
                           syllabus_reply, week_plan_reply).raised
      ]_vars

\* C27: for an existing user, a login request that supplies a password
\* succeeds only when the password verifies against the stored password of
\* the user; in every other case it is answered 401 and no field of the
\* user changes, the stored password included.
C27_LoginVerifiesPassword ==
    [][\A id \in SevisPassIds :
           (/\ Answers("login")
            /\ response'.sevis_pass_id = id
            /\ response'.password # NoField
            /\ UserRows(users, id) # {})
               => \A i \in UserRows(users, id) :
                      IF check_password(response'.password, users[i].password)
                      THEN response'.status = 200
                      ELSE /\ response'.status = 401
                           /\ users' = users
      ]_vars

C29_OneClient ==
    /\ built <= 1
    /\ \A t \in ClientThreads, u \in ClientThreads :
           (callers[t].got # 0 /\ callers[u].got # 0) =>
               callers[t].got = callers[u].got
    /\ \A t \in ClientThreads :
           (callers[t].calls > 0 /\ callers[t].pc = "idle") =>
               callers[t].got # 0

(***************************************************************************)
(* Claims about _clean_video_urls_in_study_plan, checked under SpecClean.  *)
(***************************************************************************)
\* the strings stored under a key named video_url, at any depth of v
RECURSIVE VideoUrlStrings(_)
VideoUrlStrings(v) ==
    IF v.t = "obj"
    THEN UNION {(IF k = Key.video_url /\ v.members[k].t = "str"
                 THEN {v.members[k]} ELSE {})
                \cup VideoUrlStrings(v.members[k]) : k \in DOMAIN v.members}
    ELSE IF v.t = "arr"
    THEN UNION {VideoUrlStrings(v.items[i]) : i \in 1..Len(v.items)}
    ELSE {}

\* C30: in the value returned by _clean_video_urls_in_study_plan, every
\* string stored under a key named video_url, at any nesting depth of the
\* study plan, is a URL in the cleaned form that
\* _validate_and_clean_video_url accepts; every video_url that fails
\* validation has been removed.
C30_VideoUrlsCleaned ==
    cleaned # NoValue =>
        \A u \in VideoUrlStrings(cleaned) :
            validate_and_clean_video_url(u) = u

=============================================================================
